---- MODULE Spec2Model ----
(***************************************************************************)
(* NNstorm cloud: the get-or-create reconciler of AzureManager with its    *)
(* delete and delete_rsg, the VM power operations of AzureVM that share    *)
(* its wait primitive, the shell executor run_shell_command under the      *)
(* kubectl and helm commands that create and delete, the credential        *)
(* lookups and client cache of AzureApi, the key vault lifecycle request   *)
(* by request, the construction of AzureManager, HelmAPI's add_repo and    *)
(* install, the deploy, wait_for_service, get_fqdn and SSH config entries  *)
(* of AzureVM, the service endpoints of a subnet, the AKS version query,   *)
(* and two threads in one get-or-create method.                            *)
(*                                                                         *)
(* The Azure provider and the child process are the environment: their     *)
(* answers are nondeterministic choices over what the SDK or the operating *)
(* system can answer at that call site.                                    *)
(***************************************************************************)
EXTENDS Integers, Sequences, FiniteSets, TLC

VARIABLES
    async_mode,   \* AzureManager._async_mode
    resources,    \* provider: resource ref -> stored configuration, or Absent
    pending,      \* provider: operations still in progress whose caller has returned
    vm,           \* AzureVM.vm: the bound VirtualMachine, or None
    call,         \* the library call in progress (single-threaded use), or IdleCall
    manager_config,  \* AzureManager.config: the keys it holds
    last,         \* what the most recently finished call did and how it ended
    ncalls        \* number of library calls started

azureVars == <<async_mode, resources, pending, vm, call, manager_config, last, ncalls>>

VARIABLES
    sh,             \* the run_shell_command invocation: its locals and its outcome
    child,          \* the child process: what it still writes, how it exits
    outpipe,        \* lines in the pipe of the child's standard output
    errpipe,        \* chunks in the pipe of the child's standard error
    target_exists   \* kind of target -> whether the cluster holds it

shellVars == <<sh, child, outpipe, errpipe, target_exists>>

VARIABLES
    vault,          \* provider: the key vault is "absent", "active" or "deleted"
    kv_exists,      \* AzureKeyVault.exists
    kv_call,        \* the key vault call in hand: its position and what it did
    kv_last,        \* what the most recent key vault call did and how it ended
    kv_foreign,     \* provider: the vault name is held outside the subscription
    kv_calls        \* number of key vault calls made

kvVars == <<vault, kv_exists, kv_call, kv_last, kv_foreign, kv_calls>>

VARIABLES
    auth_is_file,   \* whether the credential file exists
    auth,           \* the credential file: key -> value, or Missing
    cred,           \* what the credential lookups of AzureApi returned
    clients,        \* AzureApi._clients: class name -> cached client, or None
    built,          \* client class -> number of instances constructed of it
    handed,         \* client class -> the instances client() returned for it
    client_last,    \* the most recent client() call
    client_calls,   \* number of client() calls made
    mgr,            \* the AzureManager construction: its position and what it did
    rsg_state       \* provider: provisioning state of the resource group, or Absent

apiVars ==
    <<auth_is_file, auth, cred, clients, built, handed, client_last, client_calls,
      mgr, rsg_state>>

VARIABLES
    helm,           \* the HelmAPI call in progress or finished
    repos           \* helm.repos, the package-level list of registered repositories

helmVars == <<helm, repos>>

VARIABLES
    wfs,            \* the AzureVM.wait_for_service call: its locals, what it probed, self._fqdn
    svc_up,         \* the host: which of its services answer a probe now
    flips,          \* number of times a service of the host went up or down
    dep             \* the AzureVM.deploy call: its position and the requests it made

VARIABLES
    ssh_dir_exists,      \* whether the directory $HOME/.ssh exists
    ssh_config,          \* $HOME/.ssh/config: its lines
    ssh_config_is_file,  \* whether $HOME/.ssh/config exists
    known_hosts,         \* $HOME/.ssh/known_hosts: whether it exists, its lines
    ssh_last             \* the most recent call of AzureVM on these files or of get_fqdn

sshVars == <<ssh_dir_exists, ssh_config, ssh_config_is_file, known_hosts, ssh_last>>

hostVars == <<wfs, svc_up, flips, dep, sshVars>>

VARIABLES
    endpoints,      \* provider: the subnet, its service endpoints and policies
    ep              \* caller -> its enable_vnet_service_endpoints call, in hand or ended

netVars == <<endpoints, ep>>

VARIABLES
    aks             \* the get_latest_version_on_azure call: what az listed, what it returned

aksVars == <<aks>>

VARIABLES
    threads         \* two threads of one process, each in a get-or-create call

threadVars == <<threads>>

otherVars == <<hostVars, netVars, aksVars, threadVars>>

vars == <<azureVars, shellVars, kvVars, apiVars, helmVars, otherVars>>

----------------------------------------------------------------------------
(* Bounds of the model *)

MaxCalls == 2

MaxPending == 1

MaxWrites == 2

PipeCap == 1

\* run_shell_command invocations in one behaviour
MaxCommands == 3

MaxKvCalls == 3

\* failures of set_secret("test", "x") in a row that one create_keyvault
\* sleeps over
MaxSecretTries == 2

MaxClientCalls == 6

MaxPolls == 3

MaxHelmCalls == 2

MaxFlips == 3

MaxDeploys == 2

MaxSshCalls == 3

MaxEndpointCalls == 2

----------------------------------------------------------------------------
(* Python values *)

None == "None"

\* `not x` of Python for the values used here: None, the empty string / list
Falsy(v) == v \in {None, ""}

----------------------------------------------------------------------------
(* The provider, as seen through the SDK clients *)

EnsureOps == {"virtual_machine", "network_security_group", "virtual_network",
              "subnet", "public_ip", "network_interface"}

PowerOps == {"restart", "power_off", "start"}

Names == {"a"}

Refs == EnsureOps \X Names

Absent == "Absent"

\* the desired state a caller can pass to each get-or-create method
ArgsOf(op) ==
    CASE op = "virtual_machine"        -> {None, "nic1"}
      [] op = "network_security_group" -> {None}
      [] op = "virtual_network"        -> {"", "10.0.0.0/16"}
      [] op = "subnet"                 -> {None, "10.0.0.0/24"}
      [] op = "public_ip"              -> {None, "dns1"}
      [] op = "network_interface"      -> {None, "nsg1"}

NoErr == [type |-> "none", code |-> "", msg |-> <<>>]

CloudError(code) == [type |-> "CloudError", code |-> code, msg |-> <<>>]

AzureError(words) == [type |-> "AzureError", code |-> "", msg |-> words]

AttributeError == [type |-> "AttributeError", code |-> "", msg |-> <<>>]

\* self.config[key] on a dict without the key
ConfigKeyError(key) == [type |-> "KeyError", code |-> "", msg |-> <<key>>]

\* the keys the library reads from AzureManager.config
ConfigKeys ==
    {"location", "nvidia_plan", "nsg", "vnet", "vnet_addresses", "subnet",
     "subnet_address", "secrets", "ubuntu_image", "vm_sizes"}

\* self.config = {} of the constructor, or the dict its owner has filled in
Configs == {{}, ConfigKeys}

\* terminal failures of a provider operation
OpFailures == {"QuotaExceeded", "Conflict"}

\* what <client>.<collection>.get(rsg, name) can answer: the resource, a
\* CloudError of the not-found class, or a CloudError of another class
LookupOutcomes(ref) ==
    (IF resources[ref] # Absent THEN {"found"} ELSE {"ResourceNotFound"})
        \cup {"AuthorizationFailed"}

IsCloudError(o) == o # "found"

Terminal == {"Succeeded", "Failed"}

----------------------------------------------------------------------------
(* Call records *)

IdleCall ==
    [op |-> "none", name |-> "", arg |-> None, pc |-> "idle", force |-> FALSE,
     mode |-> FALSE, lookup |-> "none", creates |-> 0, waited |-> FALSE,
     cfg |-> None, hstatus |-> "none", herror |-> NoErr, reqAfterFail |-> 0,
     outcome |-> "none", error |-> NoErr, result |-> None, ctor |-> FALSE,
     reqs |-> <<>>]

NewCall(op, name, arg) ==
    [IdleCall EXCEPT !.op = op, !.name = name, !.arg = arg, !.mode = async_mode]

\* the operations that change what the provider holds
ChangingOps == EnsureOps \cup {"delete", "delete_rsg"}

\* the call returns with its operation still running at the provider
LeavesPending(c) == c.hstatus = "InProgress" /\ c.op \in ChangingOps

\* what the provider holds once an operation has succeeded: the resource
\* created, the virtual machine deleted, or the resource group deleted with
\* all that is in it
ProviderEffect(rs, op, name, cfg) ==
    CASE op \in EnsureOps  -> [rs EXCEPT ![<<op, name>>] = cfg]
      [] op = "delete"     -> [rs EXCEPT ![<<"virtual_machine", name>>] = Absent]
      [] op = "delete_rsg" -> [r \in Refs |-> Absent]
      [] OTHER             -> rs

\* the call ends: its record becomes `last`; an operation still in progress
\* stays with the provider
Finish(c, outcome, error, result) ==
    /\ LeavesPending(c) => Cardinality(pending) < MaxPending
    /\ call' = IdleCall
    /\ last' = [c EXCEPT !.pc = "done", !.outcome = outcome, !.error = error,
                         !.result = result]
    /\ pending' = IF LeavesPending(c)
                  THEN pending \cup {<<c.op, c.name, c.cfg>>}
                  ELSE pending

----------------------------------------------------------------------------
(* AzureManager: the get-or-create methods *)

Return == [do |-> "return", error |-> NoErr]

Create == [do |-> "create", error |-> NoErr]

Raise(e) == [do |-> "raise", error |-> e]

MsgNoNetworkInterface ==
    <<"Cannot", "create", "VM", "without", "network", "interface",
      "please", "supply", "it">>

MsgNoAddressPrefix ==
    <<"Cannot", "create", "vnet", "without", "specified", "address", "prefix">>

\* try: get  except CloudError: (check the interface)  else: return vm
virtual_machine_lookup(o, network_interface) ==
    IF IsCloudError(o)
    THEN IF Falsy(network_interface)
         THEN Raise(AzureError(MsgNoNetworkInterface))
         ELSE Create
    ELSE Return

\* try: get  except CloudError: log  else: return nsg
network_security_group_lookup(o, arg) ==
    IF IsCloudError(o) THEN Create ELSE Return

\* the prefix check hoisted above the lookup
virtual_network_lookup_validate_first(o, address_prefixes) ==
    IF Falsy(address_prefixes)
    THEN Raise(AzureError(MsgNoAddressPrefix))
    ELSE IF IsCloudError(o) THEN Create ELSE Return

\* try: get  except CloudError: log  else: return vnet; then the prefix check
virtual_network_lookup(o, address_prefixes) ==
    IF IsCloudError(o)
    THEN IF Falsy(address_prefixes)
         THEN Raise(AzureError(MsgNoAddressPrefix))
         ELSE Create
    ELSE Return

\* the prefix check left out
subnet_lookup_unchecked(o, address_prefix) ==
    IF IsCloudError(o) THEN Create ELSE Return

\* try: get  except CloudError: log  else: return subnet; then the prefix check
subnet_lookup(o, address_prefix) ==
    IF IsCloudError(o)
    THEN IF Falsy(address_prefix)
         THEN Raise(AzureError(MsgNoAddressPrefix))
         ELSE Create
    ELSE Return

\* try: get  except CloudError: log  else: return public_ip
public_ip_lookup(o, dns_name) ==
    IF IsCloudError(o) THEN Create ELSE Return

\* try: get  except CloudError: log  else: return nic
network_interface_lookup(o, nsg) ==
    IF IsCloudError(o) THEN Create ELSE Return

\* a method that creates whatever the lookup answered
LookupDecision_always_create(op, o, arg) == Create

LookupDecision(op, o, arg) ==
    CASE op = "virtual_machine"        -> virtual_machine_lookup(o, arg)
      [] op = "network_security_group" -> network_security_group_lookup(o, arg)
      [] op = "virtual_network"        -> virtual_network_lookup(o, arg)
      [] op = "subnet"                 -> subnet_lookup(o, arg)
      [] op = "public_ip"              -> public_ip_lookup(o, arg)
      [] op = "network_interface"      -> network_interface_lookup(o, arg)

\* the part of the request body that depends on the caller's desired state
CreateConfig(op, name, arg) ==
    CASE op = "virtual_machine"        -> arg
      [] op = "network_security_group" -> "location"
      [] op = "virtual_network"        -> arg
      [] op = "subnet"                 -> arg
      [] op = "public_ip"              -> IF Falsy(arg) THEN name ELSE arg
      [] op = "network_interface"      -> arg

\* where the request body of a create takes its location from:
\* self.get_location(), self.config["location"], or nowhere
LocationFrom(op) ==
    CASE op \in {"network_security_group", "virtual_network", "public_ip"} -> "get_location"
      [] op \in {"virtual_machine", "network_interface"}                    -> "config"
      [] op = "subnet"                                                      -> "none"

\* the request body is built: self.config["location"] raises KeyError on a
\* dict without the key; get_location() is a provider request of its own
BuildParams(op, cfg) ==
    IF LocationFrom(op) = "config" /\ "location" \notin cfg
    THEN Raise(ConfigKeyError("location"))
    ELSE IF op = "virtual_machine" /\ "nvidia_plan" \notin cfg
    THEN Raise(ConfigKeyError("nvidia_plan"))
    ELSE Create

\* the first provider request of a get-or-create method and what the method
\* decides from its answer
EnsureBegins(op, name, arg) ==
    /\ \E o \in LookupOutcomes(<<op, name>>) :
          LET c == [NewCall(op, name, arg) EXCEPT !.lookup = o, !.reqs = <<"get">>]
              d == LookupDecision(op, o, arg)
          IN  CASE d.do = "return" ->
                     Finish(c, "returned", NoErr, resources[<<op, name>>])
                [] d.do = "raise" ->
                     Finish(c, "raised", d.error, None)
                [] d.do = "create" ->
                     IF BuildParams(op, manager_config).do = "raise"
                     THEN Finish(c, "raised", BuildParams(op, manager_config).error, None)
                     ELSE /\ call' = [c EXCEPT
                                        !.pc = IF LocationFrom(op) = "get_location"
                                               THEN "location" ELSE "create",
                                        !.cfg = CreateConfig(op, name, arg)]
                          /\ UNCHANGED <<last, pending>>

\* a get-or-create method called by the user of the library
EnsureLookup(op, name, arg) ==
    /\ call.pc = "idle"
    /\ ncalls < MaxCalls
    /\ ncalls' = ncalls + 1
    /\ EnsureBegins(op, name, arg)
    /\ UNCHANGED <<async_mode, resources, vm, manager_config>>
    /\ UNCHANGED <<shellVars, kvVars, apiVars, helmVars, otherVars>>

virtual_machine ==
    \E name \in Names, a \in ArgsOf("virtual_machine") :
        EnsureLookup("virtual_machine", name, a)

network_security_group ==
    \E name \in Names, a \in ArgsOf("network_security_group") :
        EnsureLookup("network_security_group", name, a)

virtual_network ==
    \E name \in Names, a \in ArgsOf("virtual_network") :
        EnsureLookup("virtual_network", name, a)

subnet ==
    \E name \in Names, a \in ArgsOf("subnet") :
        EnsureLookup("subnet", name, a)

public_ip ==
    \E name \in Names, a \in ArgsOf("public_ip") :
        EnsureLookup("public_ip", name, a)

network_interface ==
    \E name \in Names, a \in ArgsOf("network_interface") :
        EnsureLookup("network_interface", name, a)

\* get_location(): resource_groups.get(self.rsg).location, whose CloudError
\* is not caught
get_location ==
    /\ call.pc = "location"
    /\ LET c == [call EXCEPT !.reqs = Append(@, "resource_groups.get")]
       IN  \/ /\ call' = [c EXCEPT !.pc = "create"]
              /\ UNCHANGED <<last, pending>>
           \/ Finish(c, "raised", CloudError("AuthorizationFailed"), None)
    /\ UNCHANGED <<async_mode, resources, vm, manager_config, ncalls>>
    /\ UNCHANGED <<shellVars, kvVars, apiVars, helmVars, otherVars>>

\* <collection>.create_or_update(rsg, name, params): the request is submitted
\* and answers with an operation handle, the provider possibly listing the
\* resource already while the operation runs; or the request raises, which no
\* method catches: no handle, nothing stored
create_or_update ==
    /\ call.pc = "create"
    /\ LET c == [call EXCEPT !.creates = @ + 1,
                             !.reqs = Append(@, "create_or_update")]
       IN  \/ /\ \E listed \in BOOLEAN :
                    resources' = IF listed
                                 THEN [resources EXCEPT ![<<call.op, call.name>>] = call.cfg]
                                 ELSE resources
              /\ call' = [c EXCEPT !.pc = "async_wait", !.hstatus = "InProgress"]
              /\ UNCHANGED <<last, pending>>
           \/ /\ Finish(c, "raised", CloudError("AuthorizationFailed"), None)
              /\ UNCHANGED resources
    /\ UNCHANGED <<async_mode, vm, ncalls, manager_config>>
    /\ UNCHANGED <<shellVars, kvVars, apiVars, helmVars, otherVars>>

----------------------------------------------------------------------------
(* AzureManager.set_async and AzureManager._async_wait *)

set_async(async_on) ==
    /\ call.pc = "idle"
    /\ async_mode' = async_on
    /\ UNCHANGED <<resources, pending, vm, call, last, ncalls, manager_config>>
    /\ UNCHANGED <<shellVars, kvVars, apiVars, helmVars, otherVars>>

\* force_wait ignored
AsyncWaitBlocks_no_force(mode, force_wait) == ~mode

\* `if not self._async_mode or force_wait:` the handle is waited for
AsyncWaitBlocks(mode, force_wait) == (~mode) \/ force_wait

\* the operation's error swallowed
WaitOutcome_swallow(hstatus, herror) == Return

\* handle.wait() returns when the operation is terminal and raises the
\* operation's error when it failed
WaitOutcome(hstatus, herror) ==
    IF hstatus = "Failed" THEN Raise(herror) ELSE Return

\* where a method continues after _async_wait
AfterWait(op) == IF op \in EnsureOps THEN "get" ELSE "return"

_async_wait ==
    /\ call.pc = "async_wait"
    /\ IF AsyncWaitBlocks(async_mode, call.force)
       THEN /\ call.hstatus \in Terminal
            /\ LET c == [call EXCEPT !.waited = TRUE]
                   w == WaitOutcome(call.hstatus, call.herror)
               IN  IF w.do = "raise"
                   THEN Finish(c, "raised", w.error, None)
                   ELSE IF AfterWait(call.op) = "return"
                        THEN Finish(c, "returned", NoErr, None)
                        ELSE /\ call' = [c EXCEPT !.pc = "get"]
                             /\ UNCHANGED <<last, pending>>
       ELSE IF AfterWait(call.op) = "return"
            THEN Finish(call, "returned", NoErr, None)
            ELSE /\ call' = [call EXCEPT !.pc = "get"]
                 /\ UNCHANGED <<last, pending>>
    /\ UNCHANGED <<async_mode, resources, vm, ncalls, manager_config>>
    /\ UNCHANGED <<shellVars, kvVars, apiVars, helmVars, otherVars>>

\* the closing <collection>.get(rsg, name) of a get-or-create method: its
\* answer is returned, its CloudError is not caught
final_get ==
    /\ call.pc = "get"
    /\ \E o \in LookupOutcomes(<<call.op, call.name>>) :
          LET c == [call EXCEPT !.reqAfterFail =
                        IF call.hstatus = "Failed" THEN @ + 1 ELSE @,
                                !.reqs = Append(@, "get")]
          IN  IF IsCloudError(o)
              THEN /\ Finish(c, "raised", CloudError(o), None)
                   /\ UNCHANGED vm
              ELSE /\ Finish(c, "returned", NoErr, resources[<<call.op, call.name>>])
                   /\ vm' = IF call.ctor THEN call.name ELSE vm
    /\ UNCHANGED <<async_mode, resources, ncalls, manager_config>>
    /\ UNCHANGED <<shellVars, kvVars, apiVars, helmVars, otherVars>>

----------------------------------------------------------------------------
(* AzureVM: construction from a name, and the power operations *)

\* AzureVM(api, name): api.virtual_machine(name) without a network interface;
\* its AzureError leaves self.vm unset, what it returns is bound to self.vm
AzureVM_init ==
    /\ call.pc = "idle"
    /\ ncalls < MaxCalls
    /\ ncalls' = ncalls + 1
    /\ \E name \in Names :
       \E o \in LookupOutcomes(<<"virtual_machine", name>>) :
          LET c == [NewCall("virtual_machine", name, None) EXCEPT
                        !.lookup = o, !.ctor = TRUE, !.reqs = <<"get">>]
              d == virtual_machine_lookup(o, None)
          IN  CASE d.do = "return" ->
                     /\ vm' = name
                     /\ Finish(c, "returned", NoErr, resources[<<"virtual_machine", name>>])
                [] d.do = "raise" ->
                     /\ vm' = None
                     /\ Finish(c, "returned", NoErr, None)
                [] d.do = "create" ->
                     /\ call' = [c EXCEPT !.pc = "create",
                                          !.cfg = CreateConfig("virtual_machine", name, None)]
                     /\ UNCHANGED <<last, pending, vm>>
    /\ UNCHANGED <<async_mode, resources, manager_config>>
    /\ UNCHANGED <<shellVars, kvVars, apiVars, helmVars, otherVars>>

\* restart / power_off / start: virtual_machines.<op>(rsg, self.vm.name),
\* which may raise, then api._async_wait(handle)
PowerOp(op) ==
    /\ call.pc = "idle"
    /\ ncalls < MaxCalls
    /\ ncalls' = ncalls + 1
    /\ IF vm = None
       THEN Finish(NewCall(op, "", None), "raised", AttributeError, None)
       ELSE LET c == [NewCall(op, vm, None) EXCEPT !.reqs = <<op>>]
            IN  \/ /\ call' = [c EXCEPT !.pc = "async_wait", !.hstatus = "InProgress"]
                   /\ UNCHANGED <<last, pending>>
                \/ Finish(c, "raised", CloudError("AuthorizationFailed"), None)
    /\ UNCHANGED <<async_mode, resources, vm, manager_config>>
    /\ UNCHANGED <<shellVars, kvVars, apiVars, helmVars, otherVars>>

restart == PowerOp("restart")

power_off == PowerOp("power_off")

start == PowerOp("start")

\* a caller of the library hands _async_wait a handle of its own, with force_wait
async_wait_handle ==
    /\ call.pc = "idle"
    /\ ncalls < MaxCalls
    /\ ncalls' = ncalls + 1
    /\ \E force_wait \in BOOLEAN :
          call' = [NewCall("_async_wait", "", None) EXCEPT
                       !.pc = "async_wait", !.hstatus = "InProgress",
                       !.force = force_wait]
    /\ UNCHANGED <<async_mode, resources, pending, vm, last, manager_config>>
    /\ UNCHANGED <<shellVars, kvVars, apiVars, helmVars, otherVars>>

----------------------------------------------------------------------------
(* AzureManager.delete and AzureManager.delete_rsg *)

MsgUnknownClass ==
    <<"Object's", "class", "is", "unknown", "to", "delete", "functionality.">>

\* the classes of the resources handed to delete
ResourceClasses == {"VirtualMachine", "NetworkInterface"}

\* delete(resource): `if isinstance(resource, VirtualMachine):`
\* virtual_machines.delete(rsg, resource.name), which may raise, then
\* async_delete.wait(); `else: raise AzureError(...)`
delete ==
    /\ call.pc = "idle"
    /\ ncalls < MaxCalls
    /\ ncalls' = ncalls + 1
    /\ \E class \in ResourceClasses, name \in Names :
          LET c == NewCall("delete", name, class)
              r == [c EXCEPT !.reqs = <<"delete">>]
          IN  IF class = "VirtualMachine"
              THEN \/ /\ call' = [r EXCEPT !.pc = "wait", !.hstatus = "InProgress"]
                      /\ UNCHANGED <<last, pending>>
                   \/ Finish(r, "raised", CloudError("AuthorizationFailed"), None)
              ELSE Finish(c, "raised", AzureError(MsgUnknownClass), None)
    /\ UNCHANGED <<async_mode, resources, vm, manager_config>>
    /\ UNCHANGED <<shellVars, kvVars, apiVars, helmVars, otherVars>>

\* async_delete.wait(): in both modes
delete_wait ==
    /\ call.pc = "wait"
    /\ call.hstatus \in Terminal
    /\ LET c == [call EXCEPT !.waited = TRUE]
           w == WaitOutcome(call.hstatus, call.herror)
       IN  IF w.do = "raise"
           THEN Finish(c, "raised", w.error, None)
           ELSE Finish(c, "returned", NoErr, None)
    /\ UNCHANGED <<async_mode, resources, vm, manager_config, ncalls>>
    /\ UNCHANGED <<shellVars, kvVars, apiVars, helmVars, otherVars>>

\* delete_rsg(): resource_groups.delete(rsg), which may raise; in async mode
\* a warning and the return, else self._async_wait(delete_async_operation)
delete_rsg ==
    /\ call.pc = "idle"
    /\ ncalls < MaxCalls
    /\ ncalls' = ncalls + 1
    /\ LET c == [NewCall("delete_rsg", "", None) EXCEPT
                     !.reqs = <<"resource_groups.delete">>]
       IN  \/ Finish(c, "raised", CloudError("AuthorizationFailed"), None)
           \/ IF async_mode
              THEN Finish([c EXCEPT !.hstatus = "InProgress"], "returned", NoErr, None)
              ELSE /\ call' = [c EXCEPT !.pc = "async_wait", !.hstatus = "InProgress"]
                   /\ UNCHANGED <<last, pending>>
    /\ UNCHANGED <<async_mode, resources, vm, manager_config>>
    /\ UNCHANGED <<shellVars, kvVars, apiVars, helmVars, otherVars>>

----------------------------------------------------------------------------
(* The provider runs the operations it accepted *)

\* the operation the current call holds a handle of reaches a terminal state
ProviderFinishes ==
    /\ call.hstatus = "InProgress"
    /\ \/ /\ call' = [call EXCEPT !.hstatus = "Succeeded"]
          /\ resources' = ProviderEffect(resources, call.op, call.name, call.cfg)
       \/ /\ \E code \in OpFailures :
                call' = [call EXCEPT !.hstatus = "Failed", !.herror = CloudError(code)]
          /\ UNCHANGED resources
    /\ UNCHANGED <<async_mode, pending, vm, last, ncalls, manager_config>>
    /\ UNCHANGED <<shellVars, kvVars, apiVars, helmVars, otherVars>>

\* an operation whose caller returned without waiting reaches a terminal state
ProviderFinishesPending ==
    /\ \E p \in pending :
          /\ pending' = pending \ {p}
          /\ \/ resources' = ProviderEffect(resources, p[1], p[2], p[3])
             \/ UNCHANGED resources
    /\ UNCHANGED <<async_mode, vm, call, last, ncalls, manager_config>>
    /\ UNCHANGED <<shellVars, kvVars, apiVars, helmVars, otherVars>>

----------------------------------------------------------------------------
(* The shell executor: bytes, text and the logging sink *)

\* Bytes and characters are named by strings: "nl" is the newline, "xff" a
\* byte that is no UTF-8.
OutLines == {<<"a", "nl">>, <<" ", "b", "nl">>, <<"xff", "nl">>}

ErrChunks == {<<"e", "nl">>, <<"xff">>}

Writes == ({"out"} \X OutLines) \cup ({"err"} \X ErrChunks)

Scripts == UNION {[1..n -> Writes] : n \in 0..MaxWrites}

\* Popen.returncode: 0, an error code, or the negative of a signal
ExitCodes == {0, 1, -15}

Str(t) == [kind |-> "str", data |-> t]

Bytes(b) == [kind |-> "bytes", data |-> b]

\* bytes.decode("utf-8") raises UnicodeDecodeError unless every byte is text
Decodable(b) == \A i \in 1..Len(b) : b[i] # "xff"

IsWhitespace(c) == c \in {" ", "nl"}

RECURSIVE LStrip(_)
LStrip(t) ==
    IF t = <<>> THEN t
    ELSE IF IsWhitespace(Head(t)) THEN LStrip(Tail(t)) ELSE t

RECURSIVE RStrip(_)
RStrip(t) ==
    IF t = <<>> THEN t
    ELSE IF IsWhitespace(t[Len(t)]) THEN RStrip(SubSeq(t, 1, Len(t) - 1)) ELSE t

\* str.strip()
Strip(t) == RStrip(LStrip(t))

\* "\n".join(outs)
RECURSIVE Join(_)
Join(outs) ==
    IF outs = <<>> THEN <<>>
    ELSE IF Len(outs) = 1 THEN outs[1]
    ELSE outs[1] \o <<"nl">> \o Join(Tail(outs))

\* the bytes of a pipe's content, in order
RECURSIVE Flatten(_)
Flatten(chunks) ==
    IF chunks = <<>> THEN <<>> ELSE Head(chunks) \o Flatten(Tail(chunks))

\* try: x = x.decode("utf-8")  except UnicodeDecodeError: pass
DecodeOrKeep(b) == IF Decodable(b) THEN Str(b) ELSE Bytes(b)

\* a record of the logging sink: `about` tells the statement that logged it
Log(level, about, what) == [level |-> level, about |-> about, what |-> what]

\* log_fn = log.info if show_info else log.debug
log_fn(show_info) == IF show_info THEN "info" ELSE "debug"

\* one pass of the polling loop over the line read: the decoded, stripped line
\* is kept and logged; a line that does not decode is logged as a warning
PollLine(s, output) ==
    IF Len(output) > 0
    THEN IF Decodable(output)
         THEN [s EXCEPT !.outs = Append(@, Strip(output)),
                        !.logs = Append(@, Log(log_fn(s.show_info), "line",
                                               Str(Strip(output))))]
         ELSE [s EXCEPT !.logs = Append(@, Log("warning", "could not decode", Bytes(output)))]
    ELSE s

MsgNonZeroExit == <<"Shellscript", "exited", "with", "non-0", "exit", "code!">>

RuntimeError(words) == [type |-> "RuntimeError", msg |-> words]

NoException == [type |-> "none", msg |-> <<>>]

\* the exit-code test taking only positive codes for failures
ExitFails_positive_only(returncode) == returncode > 0

\* `if process.returncode != 0:` the call raises
ExitFails(returncode) == returncode # 0

\* the message of the RuntimeError raised for a non-zero exit code
FailureMessage(stdout, stderr) == MsgNonZeroExit

----------------------------------------------------------------------------
(* The callers of run_shell_command that delete and that create *)

KubeDeletes == {"delete_namespace", "delete_resource", "delete_path"}

DeleteCallers == KubeDeletes \cup {"uninstall"}

\* KubeControl.create_namespace, KubeControl.apply and the helm install that
\* ends HelmAPI.install
Creators == {"create_namespace", "apply", "install"}

\* the callers that go through KubeControl.kube_cmd
KubeCallers == KubeDeletes \cup {"create_namespace", "apply"}

\* HelmAPI.exists runs helm status; HelmAPI.install ends with helm install or
\* helm upgrade
HelmCallers == {"uninstall", "install", "upgrade", "exists"}

Callers == {"direct"} \cup KubeCallers \cup HelmCallers

\* what in the cluster the command of a caller is about
TargetKinds == {"namespace", "resource", "release"}

TargetOf(caller) ==
    CASE caller \in {"delete_namespace", "create_namespace"}      -> "namespace"
      [] caller \in {"delete_resource", "delete_path", "apply"}   -> "resource"
      [] caller \in HelmCallers                                   -> "release"

NoTargets == [k \in TargetKinds |-> FALSE]

AllTargets == [k \in TargetKinds |-> TRUE]

\* kube_cmd passes poll=False; the helm callers leave the default, True
PollOf(caller) ==
    IF caller \in KubeCallers THEN {FALSE}
    ELSE IF caller \in HelmCallers THEN {TRUE}
    ELSE BOOLEAN

\* no caller in the library passes show_info; a direct caller may
ShowInfoOf(caller) == IF caller = "direct" THEN BOOLEAN ELSE {FALSE}

MsgCouldNotDelete(caller) ==
    IF caller = "delete_namespace"
    THEN <<"Could", "not", "delete", "namespace">>
    ELSE <<"Could", "not", "delete", "resource">>

MsgCouldNotCreate == <<"Could", "not", "create", "namespace">>

\* what the caller of run_shell_command makes of the RuntimeError e:
\*   KubeControl.delete_*:  except RuntimeError: warn; if not tolerate_error: raise RuntimeError(..)
\*   HelmAPI.uninstall:     except RuntimeError as e: if not tolerate_error: raise e
\*   KubeControl.create_namespace: except RuntimeError: warn; raise RuntimeError(..)
\*   HelmAPI.exists:        except RuntimeError: return False
\*   KubeControl.apply, HelmAPI.install: no handler
CallerOutcome(caller, tolerate_error, e) ==
    IF e.type = "none" THEN [outcome |-> "returned", error |-> NoException]
    ELSE IF caller = "exists" THEN [outcome |-> "returned", error |-> NoException]
    ELSE IF caller = "create_namespace"
         THEN [outcome |-> "raised", error |-> RuntimeError(MsgCouldNotCreate)]
    ELSE IF caller \notin DeleteCallers THEN [outcome |-> "raised", error |-> e]
    ELSE IF tolerate_error THEN [outcome |-> "returned", error |-> NoException]
    ELSE IF caller \in KubeDeletes
         THEN [outcome |-> "raised", error |-> RuntimeError(MsgCouldNotDelete(caller))]
         ELSE [outcome |-> "raised", error |-> e]

\* why the child of a command exits as it does: a delete, a helm status and
\* a helm upgrade fail on a target that is absent, kubectl create namespace
\* and helm install on one that exists; kubectl apply creates or updates
Causes(caller) ==
    IF caller \in {"direct", "apply"} THEN {"ok", "other"}
    ELSE IF caller \in {"create_namespace", "install"}
         THEN (IF target_exists[TargetOf(caller)]
               THEN {"exists", "other"} ELSE {"ok", "other"})
    ELSE IF target_exists[TargetOf(caller)]
         THEN {"ok", "other"} ELSE {"absent", "other"}

\* what the cluster holds once the child of `caller` has exited for `cause`
TargetsAfter(targets, caller, cause) ==
    IF cause # "ok" THEN targets
    ELSE IF caller \in DeleteCallers THEN [targets EXCEPT ![TargetOf(caller)] = FALSE]
    ELSE IF caller \in Creators THEN [targets EXCEPT ![TargetOf(caller)] = TRUE]
    ELSE targets

CodesOf(cause) == IF cause = "ok" THEN {0} ELSE ExitCodes \ {0}

----------------------------------------------------------------------------
(* run_shell_command *)

NoChild == [status |-> "none", script |-> <<>>, i |-> 1, code |-> 0, cause |-> "ok"]

NotStarted ==
    [state |-> "NotStarted", pc |-> "start", poll |-> FALSE, caller |-> "direct",
     tolerate |-> FALSE, show_info |-> FALSE, then |-> "nothing", n |-> 0,
     launches |-> 0, outs |-> <<>>, logs |-> <<>>,
     outbuf |-> <<>>, errbuf |-> <<>>, seen_exit |-> FALSE,
     stdout |-> Str(<<>>), stderr |-> Str(<<>>), exception |-> NoException,
     outcome |-> "none", error |-> NoException]

ShellInit ==
    /\ sh = NotStarted
    /\ child = NoChild
    /\ outpipe = <<>>
    /\ errpipe = <<>>
    /\ target_exists \in {NoTargets, AllTargets}

\* the first command of a method that runs shell commands, and what the
\* method runs after it.  HelmAPI.install runs uninstall(name,
\* tolerate_error=True) first when reinstall, else exists(name), and then
\* helm install, or helm upgrade when exists answered True.
FirstCommands ==
    {[caller |-> c, tolerate |-> t, then |-> "nothing"] :
        c \in DeleteCallers, t \in BOOLEAN}
    \cup {[caller |-> c, tolerate |-> FALSE, then |-> "nothing"] :
            c \in {"direct", "create_namespace", "apply", "exists"}}
    \cup {[caller |-> "uninstall", tolerate |-> TRUE, then |-> "install"],
          [caller |-> "exists", tolerate |-> FALSE, then |-> "by_status"]}

\* the number of commands of the method that begins with `first`
CommandsOf(first) == IF first.then = "nothing" THEN 1 ELSE 2

\* what HelmAPI.install runs after the command that has ended: helm upgrade
\* when exists answered True, else helm install
NextCommand(s) ==
    IF s.then = "nothing" THEN "nothing"
    ELSE IF s.then = "by_status" /\ s.exception = NoException THEN "upgrade"
    ELSE "install"

\* a new invocation: its locals are fresh
Invocation(caller, tolerate_error, show_info, then, polling) ==
    [NotStarted EXCEPT !.state = "Running",
                       !.pc = IF polling THEN "readline" ELSE "wait",
                       !.poll = polling, !.caller = caller,
                       !.tolerate = tolerate_error,
                       !.show_info = show_info,
                       !.then = then,
                       !.n = sh.n,
                       !.launches = @ + 1]

\* subprocess.Popen(command_arg_list, stdout=PIPE, stderr=PIPE)
Popen ==
    /\ sh.pc = "start"
    /\ kv_calls = 0
    /\ \E first \in FirstCommands, script \in Scripts :
          LET f == IF sh.then = "nothing" THEN first
                   ELSE [caller |-> sh.then, tolerate |-> FALSE, then |-> "nothing"]
          IN  /\ sh.n + CommandsOf(f) <= MaxCommands
              /\ \E polling \in PollOf(f.caller), show_info \in ShowInfoOf(f.caller),
                    cause \in Causes(f.caller) :
                 \E code \in CodesOf(cause) :
                    /\ sh' = Invocation(f.caller, f.tolerate, show_info, f.then, polling)
                    /\ child' = [status |-> "running", script |-> script, i |-> 1,
                                 code |-> code, cause |-> cause]
    /\ UNCHANGED <<outpipe, errpipe, target_exists>>
    /\ UNCHANGED <<azureVars, kvVars, apiVars, helmVars, otherVars>>

\* `raise RuntimeError(...)` or `return stdout, stderr` has been taken by the
\* caller: the locals of the invocation are gone, and sh.n counts it; what is
\* left is the command the caller's method runs next
Returned ==
    /\ sh.pc = "done"
    /\ sh.n + 1 < MaxCommands
    /\ sh' = [NotStarted EXCEPT !.n = sh.n + 1, !.then = NextCommand(sh)]
    /\ child' = NoChild
    /\ UNCHANGED <<outpipe, errpipe, target_exists>>
    /\ UNCHANGED <<azureVars, kvVars, apiVars, helmVars, otherVars>>

\* output = process.stdout.readline() and the body of the loop up to the
\* poll: readline answers with a line of the pipe, or with b"" once the child
\* has closed its standard output
readline ==
    /\ sh.pc = "readline"
    /\ IF outpipe # <<>>
       THEN /\ sh' = [PollLine(sh, Head(outpipe)) EXCEPT !.pc = "poll"]
            /\ outpipe' = Tail(outpipe)
       ELSE /\ child.status = "exited"
            /\ sh' = [PollLine(sh, <<>>) EXCEPT !.pc = "poll"]
            /\ UNCHANGED outpipe
    /\ UNCHANGED <<child, errpipe, target_exists>>
    /\ UNCHANGED <<azureVars, kvVars, apiVars, helmVars, otherVars>>

\* `if process.poll() is not None: break`
poll ==
    /\ sh.pc = "poll"
    /\ sh' = [sh EXCEPT !.pc = IF child.status = "exited" THEN "wait" ELSE "readline"]
    /\ UNCHANGED <<child, outpipe, errpipe, target_exists>>
    /\ UNCHANGED <<azureVars, kvVars, apiVars, helmVars, otherVars>>

\* process.wait()
wait ==
    /\ sh.pc = "wait"
    /\ child.status = "exited"
    /\ sh' = [sh EXCEPT !.pc = "communicate", !.seen_exit = TRUE]
    /\ UNCHANGED <<child, outpipe, errpipe, target_exists>>
    /\ UNCHANGED <<azureVars, kvVars, apiVars, helmVars, otherVars>>

\* process.communicate() reads both pipes to their end
communicate_read ==
    /\ sh.pc = "communicate"
    /\ outpipe # <<>> \/ errpipe # <<>>
    /\ sh' = [sh EXCEPT !.outbuf = @ \o Flatten(outpipe),
                        !.errbuf = @ \o Flatten(errpipe)]
    /\ outpipe' = <<>>
    /\ errpipe' = <<>>
    /\ UNCHANGED <<child, target_exists>>
    /\ UNCHANGED <<azureVars, kvVars, apiVars, helmVars, otherVars>>

\* what run_shell_command does with what communicate() returned: decode, join
\* the polled lines, then raise or return by the exit code
Conclude(s, returncode) ==
    LET out0   == DecodeOrKeep(s.outbuf)
        stderr == DecodeOrKeep(s.errbuf)
        stdout == IF s.poll THEN Str(Join(s.outs)) ELSE out0
    IN  IF ExitFails(returncode)
        THEN [s EXCEPT !.state = "Failed", !.pc = "done",
                       !.stdout = stdout, !.stderr = stderr,
                       !.logs = @ \o <<Log("warning", "stdout", stdout),
                                       Log("error", "stderr", stderr)>>,
                       !.exception = RuntimeError(FailureMessage(stdout, stderr))]
        ELSE [s EXCEPT !.state = "Succeeded", !.pc = "done",
                       !.stdout = stdout, !.stderr = stderr]

\* communicate() returns once the child has exited and the pipes are read;
\* the rest of run_shell_command and the caller's handler follow
communicate_done ==
    /\ sh.pc = "communicate"
    /\ child.status = "exited"
    /\ outpipe = <<>> /\ errpipe = <<>>
    /\ LET s == Conclude(sh, child.code)
           c == CallerOutcome(s.caller, s.tolerate, s.exception)
       IN  sh' = [s EXCEPT !.outcome = c.outcome, !.error = c.error]
    /\ UNCHANGED <<child, outpipe, errpipe, target_exists>>
    /\ UNCHANGED <<azureVars, kvVars, apiVars, helmVars, otherVars>>

\* the child writes its next line or chunk, if the pipe has room for it
ChildWrites ==
    /\ child.status = "running"
    /\ child.i <= Len(child.script)
    /\ LET w == child.script[child.i]
       IN  IF w[1] = "out"
           THEN /\ Len(outpipe) < PipeCap
                /\ outpipe' = Append(outpipe, w[2])
                /\ UNCHANGED errpipe
           ELSE /\ Len(errpipe) < PipeCap
                /\ errpipe' = Append(errpipe, w[2])
                /\ UNCHANGED outpipe
    /\ child' = [child EXCEPT !.i = @ + 1]
    /\ UNCHANGED <<sh, target_exists>>
    /\ UNCHANGED <<azureVars, kvVars, apiVars, helmVars, otherVars>>

\* the child exits; a delete command that succeeded has removed its target,
\* a create, apply or install that succeeded has made it
ChildExits ==
    /\ child.status = "running"
    /\ child.i > Len(child.script)
    /\ child' = [child EXCEPT !.status = "exited"]
    /\ target_exists' = TargetsAfter(target_exists, sh.caller, child.cause)
    /\ UNCHANGED <<sh, outpipe, errpipe>>
    /\ UNCHANGED <<azureVars, kvVars, apiVars, helmVars, otherVars>>

ShellNext ==
    \/ Popen
    \/ Returned
    \/ readline
    \/ poll
    \/ wait
    \/ communicate_read
    \/ communicate_done
    \/ ChildWrites
    \/ ChildExits

----------------------------------------------------------------------------
(* AzureKeyVault: delete_keyvault and create_keyvault, one step for each  *)
(* request they make                                                       *)

\* the vault and self.exists as a call finds them
KvWas(v, e) == [vault |-> v, exists |-> e]

NoKvCall ==
    [op |-> "none", purge |-> FALSE, fail_ok |-> FALSE, cause |-> "ok",
     outcome |-> "none", error |-> "", creates |-> 0, reqs |-> <<>>,
     at |-> "none", was |-> KvWas("absent", FALSE)]

KvIdle ==
    [pc |-> "idle", op |-> "none", purge |-> FALSE, fail_ok |-> FALSE,
     creates |-> 0, reqs |-> <<>>, tries |-> 0, in_deleted |-> FALSE,
     was |-> KvWas("absent", FALSE)]

\* single-threaded use: a call starts when the one before has ended
KvCallStarts ==
    /\ kv_calls < MaxKvCalls
    /\ kv_call.pc = "idle"
    /\ kv_last.outcome # "blocked"
    /\ kv_calls' = kv_calls + 1

\* the call c ends at the statement it is at
KvEnd(c, cause, outcome, error) ==
    /\ kv_last' = [op |-> c.op, purge |-> c.purge, fail_ok |-> c.fail_ok,
                   cause |-> cause, outcome |-> outcome, error |-> error,
                   creates |-> c.creates, reqs |-> c.reqs, at |-> c.pc,
                   was |-> c.was]
    /\ kv_call' = KvIdle

\* the call goes on to its next statement
KvGoes(c, pc) ==
    /\ kv_call' = [c EXCEPT !.pc = pc]
    /\ UNCHANGED kv_last

\* the request r has been sent
Requested(c, r) == [c EXCEPT !.reqs = Append(@, r)]

\* AzureKeyVault(name): self.exists = name in [i.name for i in vaults.list()]
KvInit ==
    /\ vault \in {"absent", "active", "deleted"}
    /\ kv_foreign \in IF vault = "absent" THEN BOOLEAN ELSE {FALSE}
    /\ kv_exists = (vault = "active")
    /\ kv_call = KvIdle
    /\ kv_last = NoKvCall
    /\ kv_calls = 0

\* keyvault_client.vaults.delete(rsg, name): the error it can raise, "" if none
VaultDeleteAnswers ==
    IF vault = "active" THEN {"", "Forbidden"}
    ELSE {"", "VaultNotFound", "Forbidden"}

\* the vault after a delete that raised nothing: soft-deleted, or gone when it
\* was created without soft delete
AfterVaultDelete ==
    IF vault = "active" THEN {"deleted", "absent"} ELSE {vault}

\* begin_purge_deleted(name, location): the error, "" if none
PurgeAnswers(v) ==
    IF v = "deleted" THEN {"", "Forbidden"} ELSE {"VaultNotFound", "Forbidden"}

\* what waiting on a poller can raise, "" if nothing
PollerAnswers == {"", "Forbidden"}

KvCause(e) ==
    IF e = "" THEN "ok" ELSE IF e = "VaultNotFound" THEN "absent" ELSE "other"

\* `except Exception as e: if not fail_ok: raise e`
DeleteKeyvaultRaises(e, fail_ok) == e # "" /\ ~fail_ok

\* the rest of delete_keyvault once its try block is left, with the error e
\* or with none (""): the handler, then self.exists = False
DeleteEnds(c, e) ==
    IF DeleteKeyvaultRaises(e, c.fail_ok)
    THEN /\ KvEnd(c, KvCause(e), "raised", e)
         /\ UNCHANGED kv_exists
    ELSE /\ KvEnd(c, KvCause(e), "returned", "")
         /\ kv_exists' = FALSE

\* delete_keyvault(rsg, location, purge, fail_ok) is called
delete_keyvault(purge, fail_ok) ==
    /\ sh = NotStarted
    /\ KvCallStarts
    /\ kv_call' = [KvIdle EXCEPT !.pc = "vaults.delete", !.op = "delete_keyvault",
                                 !.purge = purge, !.fail_ok = fail_ok,
                                 !.was = KvWas(vault, kv_exists)]
    /\ UNCHANGED <<vault, kv_exists, kv_last, kv_foreign>>
    /\ UNCHANGED <<azureVars, shellVars, apiVars, helmVars, otherVars>>

\* d = self.keyvault_client.vaults.delete(rsg, self.name)
vaults_delete ==
    /\ kv_call.pc = "vaults.delete"
    /\ LET c == Requested(kv_call, "vaults.delete")
       IN  \E e \in VaultDeleteAnswers :
             IF e # ""
             THEN /\ DeleteEnds(c, e)
                  /\ UNCHANGED vault
             ELSE /\ \E v \in AfterVaultDelete : vault' = v
                  /\ IF c.purge
                     THEN KvGoes(c, "begin_purge_deleted") /\ UNCHANGED kv_exists
                     ELSE DeleteEnds(c, "")
    /\ UNCHANGED <<kv_foreign, kv_calls>>
    /\ UNCHANGED <<azureVars, shellVars, apiVars, helmVars, otherVars>>

\* p = self.keyvault_client.vaults.begin_purge_deleted(self.name, location)
begin_purge_deleted ==
    /\ kv_call.pc = "begin_purge_deleted"
    /\ LET c == Requested(kv_call, "vaults.begin_purge_deleted")
       IN  \E e \in PurgeAnswers(vault) :
             IF e # ""
             THEN DeleteEnds(c, e)
             ELSE KvGoes(c, "p.wait") /\ UNCHANGED kv_exists
    /\ UNCHANGED <<vault, kv_foreign, kv_calls>>
    /\ UNCHANGED <<azureVars, shellVars, apiVars, helmVars, otherVars>>

\* p.wait(): the purge is done, or has failed
purge_wait ==
    /\ kv_call.pc = "p.wait"
    /\ \E e \in PollerAnswers :
         /\ vault' = IF e = "" THEN "absent" ELSE vault
         /\ DeleteEnds(kv_call, e)
    /\ UNCHANGED <<kv_foreign, kv_calls>>
    /\ UNCHANGED <<azureVars, shellVars, apiVars, helmVars, otherVars>>

\* what vaults.list_deleted() and vaults.check_name_availability() answer:
\* whether the name is among the deleted vaults, and name_available
NameAnswers ==
    { [in_deleted |-> vault = "deleted", name_available |-> a] :
        a \in IF vault = "active" \/ kv_foreign THEN {FALSE}
              ELSE IF vault = "deleted" THEN BOOLEAN
              ELSE {TRUE} }

\* a name check that looks at the deleted vaults only
check_name_available_deleted_only(in_deleted, name_available) == ~in_deleted

\* `if (self.name in names) or not available.name_available: return False`
check_name_available(in_deleted, name_available) ==
    ~(in_deleted \/ ~name_available)

MsgNameTaken == "Keyvault name is taken by deleted keyvault or is being used."

\* what a request of the vault clients can raise, "" if nothing
RequestAnswers == {"", "Forbidden"}

\* vaults.begin_create_or_update(...): the error, "" if none
VaultCreateAnswers == RequestAnswers

\* list(graphrbac_client.service_principals.list(filter=...)) in
\* get_object_id: one principal, one whose object_id is empty, none, or the
\* request raises
PrincipalAnswers == {"one", "no_object_id", "empty", "Forbidden"}

\* a request of create_keyvault raised e: nothing catches it
CreateRaises(c, e) ==
    /\ KvEnd(c, "other", "raised", e)
    /\ UNCHANGED <<vault, kv_exists>>

\* create_keyvault(rsg, location) is called
create_keyvault ==
    /\ sh = NotStarted
    /\ KvCallStarts
    /\ kv_call' = [KvIdle EXCEPT !.pc = "list_deleted", !.op = "create_keyvault",
                                 !.was = KvWas(vault, kv_exists)]
    /\ UNCHANGED <<vault, kv_exists, kv_last, kv_foreign>>
    /\ UNCHANGED <<azureVars, shellVars, apiVars, helmVars, otherVars>>

\* check_name_available: deleted_vaults = vaults.list_deleted() and
\* names = [i.name for i in deleted_vaults]
list_deleted ==
    /\ kv_call.pc = "list_deleted"
    /\ LET c == Requested(kv_call, "vaults.list_deleted")
       IN  \E e \in RequestAnswers :
             IF e # ""
             THEN CreateRaises(c, e)
             ELSE /\ KvGoes([c EXCEPT !.in_deleted = (vault = "deleted")],
                            "check_name_availability")
                  /\ UNCHANGED <<vault, kv_exists>>
    /\ UNCHANGED <<kv_foreign, kv_calls>>
    /\ UNCHANGED <<azureVars, shellVars, apiVars, helmVars, otherVars>>

\* check_name_available: vaults.check_name_availability(...), its return, and
\* `if not self.check_name_available(): raise RuntimeError(...)`
check_name_availability ==
    /\ kv_call.pc = "check_name_availability"
    /\ LET c == Requested(kv_call, "vaults.check_name_availability")
       IN  \E e \in RequestAnswers :
             IF e # ""
             THEN CreateRaises(c, e)
             ELSE \E n \in NameAnswers :
                    IF ~check_name_available(c.in_deleted, n.name_available)
                    THEN /\ KvEnd(c, "taken", "raised", MsgNameTaken)
                         /\ UNCHANGED <<vault, kv_exists>>
                    ELSE /\ KvGoes(c, "service_principals.list")
                         /\ UNCHANGED <<vault, kv_exists>>
    /\ UNCHANGED <<kv_foreign, kv_calls>>
    /\ UNCHANGED <<azureVars, shellVars, apiVars, helmVars, otherVars>>

\* "object_id": self.get_object_id() of the configuration: result[0] of the
\* service principals listed, an IndexError when there is none;
\* `assert len(result[0].object_id) > 0`
get_object_id ==
    /\ kv_call.pc = "service_principals.list"
    /\ LET c == Requested(kv_call, "service_principals.list")
       IN  \E a \in PrincipalAnswers :
             CASE a = "one"   -> /\ KvGoes(c, "begin_create_or_update")
                                 /\ UNCHANGED <<vault, kv_exists>>
               [] a = "empty" -> CreateRaises(c, "IndexError")
               [] a = "no_object_id" -> CreateRaises(c, "AssertionError")
               [] OTHER       -> CreateRaises(c, a)
    /\ UNCHANGED <<kv_foreign, kv_calls>>
    /\ UNCHANGED <<azureVars, shellVars, apiVars, helmVars, otherVars>>

\* kv = self.keyvault_client.vaults.begin_create_or_update(rsg, name, configuration)
begin_create_or_update ==
    /\ kv_call.pc = "begin_create_or_update"
    /\ LET c == [Requested(kv_call, "vaults.begin_create_or_update")
                   EXCEPT !.creates = @ + 1]
       IN  \E e \in VaultCreateAnswers :
             IF e # ""
             THEN CreateRaises(c, e)
             ELSE KvGoes(c, "kv.wait") /\ UNCHANGED <<vault, kv_exists>>
    /\ UNCHANGED <<kv_foreign, kv_calls>>
    /\ UNCHANGED <<azureVars, shellVars, apiVars, helmVars, otherVars>>

\* kv.wait(): the vault is there, or its creation has failed
kv_wait ==
    /\ kv_call.pc = "kv.wait"
    /\ \E e \in PollerAnswers :
         IF e # ""
         THEN CreateRaises(kv_call, e)
         ELSE /\ vault' = "active"
              /\ KvGoes(kv_call, "set_secret")
              /\ UNCHANGED kv_exists
    /\ UNCHANGED <<kv_foreign, kv_calls>>
    /\ UNCHANGED <<azureVars, shellVars, apiVars, helmVars, otherVars>>

\* `while True: try: self.set_secret("test", "x")  except: warning; sleep`:
\* a set_secret that fails leads to the sleep; past MaxSecretTries failures
\* the call is taken to go on failing: it never ends ("blocked")
set_secret ==
    /\ kv_call.pc = "set_secret"
    /\ LET c == Requested(kv_call, "set_secret")
       IN  \/ KvGoes(c, "begin_delete_secret")
           \/ IF c.tries < MaxSecretTries
              THEN KvGoes([c EXCEPT !.tries = @ + 1], "sleep")
              ELSE KvEnd(c, "ok", "blocked", "")
    /\ UNCHANGED <<vault, kv_exists, kv_foreign, kv_calls>>
    /\ UNCHANGED <<azureVars, shellVars, apiVars, helmVars, otherVars>>

\* time.sleep(1), then the loop again
kv_sleep ==
    /\ kv_call.pc = "sleep"
    /\ KvGoes(kv_call, "set_secret")
    /\ UNCHANGED <<vault, kv_exists, kv_foreign, kv_calls>>
    /\ UNCHANGED <<azureVars, shellVars, apiVars, helmVars, otherVars>>

\* delete_secret("test"): poller = self.secret_client.begin_delete_secret(name)
begin_delete_secret ==
    /\ kv_call.pc = "begin_delete_secret"
    /\ LET c == Requested(kv_call, "begin_delete_secret")
       IN  \E e \in RequestAnswers :
             IF e # ""
             THEN CreateRaises(c, e)
             ELSE KvGoes(c, "poller.wait") /\ UNCHANGED <<vault, kv_exists>>
    /\ UNCHANGED <<kv_foreign, kv_calls>>
    /\ UNCHANGED <<azureVars, shellVars, apiVars, helmVars, otherVars>>

\* delete_secret("test"): poller.wait()
poller_wait ==
    /\ kv_call.pc = "poller.wait"
    /\ \E e \in PollerAnswers :
         IF e # ""
         THEN CreateRaises(kv_call, e)
         ELSE KvGoes(kv_call, "purge_deleted_secret") /\ UNCHANGED <<vault, kv_exists>>
    /\ UNCHANGED <<kv_foreign, kv_calls>>
    /\ UNCHANGED <<azureVars, shellVars, apiVars, helmVars, otherVars>>

\* delete_secret("test"): `if purge: self.secret_client.purge_deleted_secret(name)`,
\* then `break` and self.exists = True
purge_deleted_secret ==
    /\ kv_call.pc = "purge_deleted_secret"
    /\ LET c == Requested(kv_call, "purge_deleted_secret")
       IN  \E e \in RequestAnswers :
             IF e # ""
             THEN CreateRaises(c, e)
             ELSE /\ KvEnd(c, "ok", "returned", "")
                  /\ kv_exists' = TRUE
                  /\ UNCHANGED vault
    /\ UNCHANGED <<kv_foreign, kv_calls>>
    /\ UNCHANGED <<azureVars, shellVars, apiVars, helmVars, otherVars>>

----------------------------------------------------------------------------
(* AzureApi: the credential file and its lookups *)

Missing == "Missing"

KeyError == "KeyError"

Unread == "unread"

AuthKeys ==
    {"tenantId", "tenant", "clientId", "appId", "clientSecret", "password",
     "subscriptionId"}

AuthValues == {"x", "y"}

\* json.load(file): the keys of the file and their values
AuthFiles == [AuthKeys -> AuthValues \cup {Missing}]

\* `key in azure_auth`
In(key, azure_auth) == azure_auth[key] # Missing

\* azure_auth[key]
Item(azure_auth, key) == IF In(key, azure_auth) THEN azure_auth[key] ELSE KeyError

\* a lookup that asks for the historical key first
_get_tenant_id_fallback_first(azure_auth) ==
    IF In("tenant", azure_auth) THEN Item(azure_auth, "tenant")
    ELSE Item(azure_auth, "tenantId")

_get_tenant_id(azure_auth) ==
    IF In("tenantId", azure_auth) THEN Item(azure_auth, "tenantId")
    ELSE Item(azure_auth, "tenant")

_get_client_id(azure_auth) ==
    IF In("clientId", azure_auth) THEN Item(azure_auth, "clientId")
    ELSE Item(azure_auth, "appId")

_get_client_secret(azure_auth) ==
    IF In("clientSecret", azure_auth) THEN Item(azure_auth, "clientSecret")
    ELSE Item(azure_auth, "password")

_get_subscription_id(azure_auth) == Item(azure_auth, "subscriptionId")

NoCred ==
    [tenant_id |-> Unread, client_id |-> Unread, client_secret |-> Unread,
     subscription_id |-> Unread]

\* the SDK client classes asked for; two of them carry the same __name__
ClientClasses ==
    {"azure.mgmt.compute.ComputeManagementClient",
     "azure.mgmt.compute.v2019.ComputeManagementClient",
     "azure.mgmt.network.NetworkManagementClient",
     "azure.mgmt.resource.ResourceManagementClient"}

\* client_class.__name__
ClassName(client_class) ==
    CASE client_class = "azure.mgmt.network.NetworkManagementClient"
           -> "NetworkManagementClient"
      [] client_class = "azure.mgmt.resource.ResourceManagementClient"
           -> "ResourceManagementClient"
      [] OTHER -> "ComputeManagementClient"

ClassNames == {ClassName(c) : c \in ClientClasses}

NoClientCall == [class |-> None, outcome |-> "none", result |-> None]

\* self._clients = {}
ClientsInit ==
    /\ clients = [n \in ClassNames |-> None]
    /\ built = [c \in ClientClasses |-> 0]
    /\ handed = [c \in ClientClasses |-> {}]
    /\ client_last = NoClientCall
    /\ client_calls = 0

clientVars == <<clients, built, handed, client_last, client_calls>>

\* a cache that is never looked at
InCache_never(name, cache) == FALSE

\* `client_class.__name__ not in self._clients`, negated
InCache(name, cache) == cache[name] # None

\* client_class(self.credentials, self.subscription_id) returns or raises
ConstructorOutcomes == {"constructed", "raised"}

\* client(client_class) whose constructor, if called, ends as `o`: a class
\* whose name is in the cache is handed the cached instance; else the class
\* is constructed and the instance cached, or the constructor raises
ClientCall(client_class, o) ==
    /\ client_calls' = client_calls + 1
    /\ LET name == ClassName(client_class)
       IN  IF InCache(name, clients)
           THEN /\ client_last' = [class |-> client_class, outcome |-> "returned",
                                   result |-> clients[name]]
                /\ handed' = [handed EXCEPT ![client_class] = @ \cup {clients[name]}]
                /\ UNCHANGED <<clients, built>>
           ELSE IF o = "raised"
                THEN /\ client_last' = [class |-> client_class, outcome |-> "raised",
                                        result |-> None]
                     /\ UNCHANGED <<clients, built, handed>>
                ELSE LET instance == <<client_class, built[client_class] + 1>>
                     IN  /\ built' = [built EXCEPT ![client_class] = @ + 1]
                         /\ clients' = [clients EXCEPT ![name] = instance]
                         /\ client_last' = [class |-> client_class,
                                            outcome |-> "returned",
                                            result |-> instance]
                         /\ handed' = [handed EXCEPT ![client_class] = @ \cup {instance}]

client(client_class) ==
    /\ client_calls < MaxClientCalls
    /\ \E o \in ConstructorOutcomes : ClientCall(client_class, o)
    /\ UNCHANGED <<auth_is_file, auth, cred, mgr, rsg_state>>
    /\ UNCHANGED <<azureVars, shellVars, kvVars, helmVars, otherVars>>

----------------------------------------------------------------------------
(* AzureManager.__init__: the resource group *)

\* resource_groups.get(rsg).properties.provisioning_state
ProvisioningStates == {"Creating", "Succeeded", "Failed", "Deleting"}

NoManager ==
    [pc |-> "none", create_rsg |-> FALSE, creates |-> 0, polls |-> 0,
     seen |-> <<>>, outcome |-> "none", error |-> NoErr]

ManagerIdle ==
    /\ mgr = NoManager
    /\ rsg_state = Absent

\* azure_auth[key] on a file without the key
AuthKeyError(key) == [type |-> "KeyError", code |-> "", msg |-> <<key>>]

\* the token request of ServicePrincipalCredentials refused
AuthenticationError == [type |-> "AuthenticationError", code |-> "", msg |-> <<>>]

\* client_class(credentials, subscription_id) raised
ConstructorError == [type |-> "Exception", code |-> "", msg |-> <<>>]

\* AzureApi.__init__(azure_auth_path): AzureError when the path is no file;
\* ClientSecretCredential from the lookups of client secret, client id and
\* tenant id, in this order; ServicePrincipalCredentials from the same
\* lookups, its token request answered or not; the subscription id.  A
\* lookup of a file with neither of its keys raises KeyError of the second.
AzureApi_init(is_file, azure_auth, authenticated) ==
    IF ~is_file
    THEN [cred |-> NoCred, error |-> AzureError(<<>>)]
    ELSE LET secret == _get_client_secret(azure_auth)
             id     == _get_client_id(azure_auth)
             tenant == _get_tenant_id(azure_auth)
             sub    == _get_subscription_id(azure_auth)
             one    == [NoCred EXCEPT !.client_secret = secret]
             two    == [one EXCEPT !.client_id = id]
             three  == [two EXCEPT !.tenant_id = tenant]
             four   == [three EXCEPT !.subscription_id = sub]
         IN  IF secret = KeyError
             THEN [cred |-> one, error |-> AuthKeyError("password")]
             ELSE IF id = KeyError
             THEN [cred |-> two, error |-> AuthKeyError("appId")]
             ELSE IF tenant = KeyError
             THEN [cred |-> three, error |-> AuthKeyError("tenant")]
             ELSE IF ~authenticated
             THEN [cred |-> three, error |-> AuthenticationError]
             ELSE IF sub = KeyError
             THEN [cred |-> four, error |-> AuthKeyError("subscriptionId")]
             ELSE [cred |-> four, error |-> NoErr]

\* a loop left as soon as the group is not failed
RsgAvailable_unless_failed(state) == state # "Failed"

\* `if rsg_state == "Succeeded": break`
RsgAvailable(state) == state = "Succeeded"

ResourceManagementClient == "azure.mgmt.resource.ResourceManagementClient"

\* AzureManager(rsg, ..., create_rsg): AzureApi.__init__, whose error ends
\* the construction before any request; self._clients = {}; self.config = {};
\* without create_rsg the construction is over
AzureManager_init(create_rsg) ==
    /\ mgr.pc = "none"
    /\ \E authenticated \in BOOLEAN :
          LET api == AzureApi_init(auth_is_file, auth, authenticated)
          IN  /\ cred' = api.cred
              /\ IF api.error # NoErr
                 THEN /\ mgr' = [mgr EXCEPT !.pc = "done", !.create_rsg = create_rsg,
                                            !.outcome = "raised", !.error = api.error]
                      /\ UNCHANGED clients
                 ELSE /\ clients' = [n \in ClassNames |-> None]
                      /\ mgr' = IF create_rsg
                                THEN [mgr EXCEPT !.pc = "create", !.create_rsg = TRUE]
                                ELSE [mgr EXCEPT !.pc = "done", !.outcome = "returned"]
    /\ UNCHANGED <<auth_is_file, auth, built, handed, client_last, client_calls,
                   rsg_state>>
    /\ UNCHANGED <<azureVars, shellVars, kvVars, helmVars, otherVars>>

\* self.client(ResourceManagementClient).resource_groups.create_or_update(...):
\* the client is constructed and cached, or its constructor raises; the
\* request is submitted, its answer dropped, or raises
rsg_create_or_update ==
    /\ mgr.pc = "create"
    /\ \E o \in ConstructorOutcomes :
          /\ ClientCall(ResourceManagementClient, o)
          /\ IF ~InCache(ClassName(ResourceManagementClient), clients) /\ o = "raised"
             THEN /\ mgr' = [mgr EXCEPT !.pc = "done", !.outcome = "raised",
                                        !.error = ConstructorError]
                  /\ UNCHANGED rsg_state
             ELSE \/ /\ mgr' = [mgr EXCEPT !.pc = "poll", !.creates = @ + 1]
                     /\ rsg_state' \in {"Creating", "Succeeded"}
                  \/ /\ mgr' = [mgr EXCEPT !.pc = "done", !.creates = @ + 1,
                                           !.outcome = "raised",
                                           !.error = CloudError("AuthorizationFailed")]
                     /\ UNCHANGED rsg_state
    /\ UNCHANGED <<auth_is_file, auth, cred>>
    /\ UNCHANGED <<azureVars, shellVars, kvVars, helmVars, otherVars>>

\* one turn of the loop: sleep, get the group through the cached client, look
\* at its provisioning state
rsg_poll ==
    /\ mgr.pc = "poll"
    /\ mgr.polls < MaxPolls
    /\ \E o \in ConstructorOutcomes : ClientCall(ResourceManagementClient, o)
    /\ IF rsg_state = Absent
       THEN mgr' = [mgr EXCEPT !.pc = "done", !.polls = @ + 1,
                               !.outcome = "raised",
                               !.error = CloudError("ResourceGroupNotFound")]
       ELSE \/ mgr' = [mgr EXCEPT !.polls = @ + 1,
                                  !.seen = Append(@, rsg_state),
                                  !.pc = IF RsgAvailable(rsg_state) THEN "done" ELSE "poll",
                                  !.outcome = IF RsgAvailable(rsg_state)
                                              THEN "returned" ELSE "none"]
            \/ mgr' = [mgr EXCEPT !.pc = "done", !.polls = @ + 1,
                                  !.outcome = "raised",
                                  !.error = CloudError("AuthorizationFailed")]
    /\ UNCHANGED <<auth_is_file, auth, cred, rsg_state>>
    /\ UNCHANGED <<azureVars, shellVars, kvVars, helmVars, otherVars>>

\* the provider carries the group on: a creation ends, a group is deleted
ProviderRsg ==
    /\ \/ rsg_state = "Creating" /\ rsg_state' \in {"Succeeded", "Failed"}
       \/ rsg_state = "Succeeded" /\ rsg_state' = "Deleting"
       \/ rsg_state = "Deleting" /\ rsg_state' = Absent
    /\ UNCHANGED <<auth_is_file, auth, cred, clientVars, mgr>>
    /\ UNCHANGED <<azureVars, shellVars, kvVars, helmVars, otherVars>>

ApiIdle ==
    /\ auth_is_file = TRUE
    /\ auth = [k \in AuthKeys |-> Missing]
    /\ cred = NoCred
    /\ ClientsInit
    /\ ManagerIdle

----------------------------------------------------------------------------
(* HelmAPI: add_repo and install.  Each helm command is one                 *)
(* run_shell_command, which returns, or raises RuntimeError on a non-zero   *)
(* exit code.                                                               *)

RepoNames == {"stable", "jetstack"}

HelmCommands == {"repo add", "repo update", "uninstall", "status", "install", "upgrade"}

NoHelmCall ==
    [op |-> "none", n |-> 0, name |-> "", reinstall |-> FALSE, pc |-> "idle",
     i |-> 0, cmds |-> <<>>, outcome |-> "none", error |-> <<>>, inst |-> None]

\* the HelmAPI objects of the process; `repos` is the one list of the module
HelmInstances == {"helm_a", "helm_b"}

OnInstance(h, inst) == [h EXCEPT !.inst = inst]

HelmIdle ==
    /\ helm = NoHelmCall
    /\ repos = <<>>

\* retries = 10
retries == 10

MsgCannotUpdate == <<"Cannot", "update", "HELM", "repo!!">>

\* a registry nobody is ever found in
InRepos_never(name, rs) == FALSE

\* `name not in repos`, negated
InRepos(name, rs) == \E k \in 1..Len(rs) : rs[k] = name

HelmCall(op, name, reinstall, pc) ==
    [NoHelmCall EXCEPT !.op = op, !.n = helm.n + 1, !.name = name,
                       !.reinstall = reinstall, !.pc = pc]

HelmDone(h, outcome, error) ==
    [h EXCEPT !.pc = "done", !.outcome = outcome, !.error = error]

\* single-threaded use: a call starts when none is in progress
HelmCallStarts ==
    /\ helm.pc \in {"idle", "done"}
    /\ helm.n < MaxHelmCalls

\* add_repo(branch, name): a registered name is left alone, else `helm repo add`
add_repo(name) ==
    /\ HelmCallStarts
    /\ \E inst \in HelmInstances :
         helm' = OnInstance(
                   IF InRepos(name, repos)
                   THEN HelmDone(HelmCall("add_repo", name, FALSE, "idle"), "returned", <<>>)
                   ELSE HelmCall("add_repo", name, FALSE, "repo add"),
                   inst)
    /\ UNCHANGED repos
    /\ UNCHANGED <<azureVars, shellVars, kvVars, apiVars, otherVars>>

\* a retry count tested one too late
Exhausted_one_late(i) == i = retries + 1

\* `if i == retries: raise RuntimeError("Cannot update HELM repo!!")`
Exhausted(i) == i = retries

\* add_repo after the exit of `helm repo add` or of a `helm repo update`
AddRepoStep(h, ok) ==
    IF h.pc = "repo add"
    THEN IF ok THEN [h EXCEPT !.pc = "repo update"]
         ELSE HelmDone(h, "raised", MsgNonZeroExit)
    ELSE IF ok THEN HelmDone(h, "returned", <<>>)
         ELSE IF Exhausted(h.i + 1)
              THEN HelmDone([h EXCEPT !.i = @ + 1], "raised", MsgCannotUpdate)
              ELSE [h EXCEPT !.i = @ + 1]

\* install(name, chart, config_map, reinstall): uninstall first, or ask whether
\* the release exists
install(reinstall) ==
    /\ HelmCallStarts
    /\ \E name \in RepoNames, inst \in HelmInstances :
          helm' = OnInstance(HelmCall("install", name, reinstall,
                                      IF reinstall THEN "uninstall" ELSE "status"),
                             inst)
    /\ UNCHANGED repos
    /\ UNCHANGED <<azureVars, shellVars, kvVars, apiVars, otherVars>>

\* a command that is always install
HelmCmd_always_install(reinstall, exists) == "install"

\* helm_cmd = "install"; if not reinstall and self.exists(name): "upgrade"
HelmCmd(reinstall, exists) ==
    IF ~reinstall /\ exists THEN "upgrade" ELSE "install"

\* install after the exit of one of its helm commands: the failure of
\* uninstall is tolerated, that of status is the answer of exists()
InstallStep(h, ok) ==
    CASE h.pc = "uninstall" -> [h EXCEPT !.pc = HelmCmd(h.reinstall, FALSE)]
      [] h.pc = "status"    -> [h EXCEPT !.pc = HelmCmd(h.reinstall, ok)]
      [] OTHER              -> IF ok THEN HelmDone(h, "returned", <<>>)
                               ELSE HelmDone(h, "raised", MsgNonZeroExit)

\* the helm command the call waits for exits, with exit code 0 or not
helm_command ==
    /\ helm.pc \in HelmCommands
    /\ \E ok \in BOOLEAN :
         LET h == [helm EXCEPT !.cmds = Append(@, [cmd |-> helm.pc, ok |-> ok])]
         IN  /\ helm' = IF helm.op = "add_repo" THEN AddRepoStep(h, ok)
                        ELSE InstallStep(h, ok)
             /\ repos' = IF helm.pc = "repo add" /\ ok
                         THEN Append(repos, helm.name)
                         ELSE repos
    /\ UNCHANGED <<azureVars, shellVars, kvVars, apiVars, otherVars>>

get_tenant_id ==
    /\ cred.tenant_id = Unread
    /\ cred' = [cred EXCEPT !.tenant_id = _get_tenant_id(auth)]
    /\ UNCHANGED <<auth_is_file, auth, clientVars, mgr, rsg_state>>
    /\ UNCHANGED <<azureVars, shellVars, kvVars, helmVars, otherVars>>

get_client_id ==
    /\ cred.client_id = Unread
    /\ cred' = [cred EXCEPT !.client_id = _get_client_id(auth)]
    /\ UNCHANGED <<auth_is_file, auth, clientVars, mgr, rsg_state>>
    /\ UNCHANGED <<azureVars, shellVars, kvVars, helmVars, otherVars>>

get_client_secret ==
    /\ cred.client_secret = Unread
    /\ cred' = [cred EXCEPT !.client_secret = _get_client_secret(auth)]
    /\ UNCHANGED <<auth_is_file, auth, clientVars, mgr, rsg_state>>
    /\ UNCHANGED <<azureVars, shellVars, kvVars, helmVars, otherVars>>

get_subscription_id ==
    /\ cred.subscription_id = Unread
    /\ cred' = [cred EXCEPT !.subscription_id = _get_subscription_id(auth)]
    /\ UNCHANGED <<auth_is_file, auth, clientVars, mgr, rsg_state>>
    /\ UNCHANGED <<azureVars, shellVars, kvVars, helmVars, otherVars>>

----------------------------------------------------------------------------
(* The reconciler under single-threaded use *)

----------------------------------------------------------------------------
(* AzureVM.wait_for_service: a ping probe and an SSH probe of the host,     *)
(* each a child process whose exit code is 0 when the service answers.      *)

Probes == {"ping", "ssh"}

SshPorts == {22, 2222}

\* self._fqdn = None of the constructor; no wait_for_service call
NoWait ==
    [pc |-> "idle", ssh_port |-> 22, ping |-> FALSE, ssh |-> FALSE,
     succeeded |-> {}, rerun |-> {}, fqdn |-> None, calling |-> FALSE,
     error |-> NoErr]

\* the steps of deploy, in the order of its statements
DeployStages ==
    <<"defaults", "user", "password", "image",
      "network_security_group", "dev_ports", "ping_rule", "virtual_network",
      "subnet", "public_ip", "network_interface", "virtual_machine">>

NoDeploy ==
    [pc |-> "idle", n |-> 0, reqs |-> <<>>, outcome |-> "none", error |-> NoErr,
     was_bound |-> FALSE, given |-> {}, keyvault |-> FALSE, calling |-> FALSE]

NoSshCall ==
    [op |-> "none", entry_name |-> <<>>, public_ip_name |-> None, n |-> 0,
     pc |-> "idle", before |-> <<>>, error |-> NoErr]

\* no file known_hosts
NoKnownHosts == [is_file |-> FALSE, lines |-> <<>>]

SshIdle ==
    /\ ssh_dir_exists = FALSE
    /\ ssh_config = <<>>
    /\ ssh_config_is_file = FALSE
    /\ known_hosts = NoKnownHosts
    /\ ssh_last = NoSshCall

HostIdle ==
    /\ wfs = NoWait
    /\ svc_up = {}
    /\ flips = 0
    /\ dep = NoDeploy
    /\ SshIdle

\* a subnet as the provider holds it
SubnetOf(exists, service_endpoints) ==
    [exists |-> exists, service_endpoints |-> service_endpoints,
     private_endpoint_network_policies |-> "Enabled"]

\* the callers of enable_vnet_service_endpoints on one subnet
EndpointCallers == {"A", "B"}

\* a caller that has made no call: `subnetwork` is the object its get read,
\* changed in place and submitted; `handle` the operation it submitted
NoEndpointCall ==
    [pc |-> "idle", n |-> 0, disable |-> FALSE, outcome |-> "none",
     before |-> <<>>, submitted |-> <<>>, subnetwork |-> SubnetOf(FALSE, <<>>),
     handle |-> "none", requests |-> 0, returns |-> 0, after_returned |-> FALSE]

NoEndpointCalls == [c \in EndpointCallers |-> NoEndpointCall]

NetIdle ==
    /\ endpoints = SubnetOf(FALSE, <<>>)
    /\ ep = NoEndpointCalls

NoAksCall == [pc |-> "idle", orchestrators |-> {}, outcome |-> "none", result |-> <<>>]

AksIdle == aks = NoAksCall

Threads == {"t1", "t2"}

NoThreadCall ==
    [pc |-> "idle", arg |-> None, lookup |-> "none", creates |-> 0,
     hstatus |-> "none", waited |-> FALSE, outcome |-> "none"]

ThreadsIdle == threads = [t \in Threads |-> NoThreadCall]

OtherIdle == HostIdle /\ NetIdle /\ AksIdle /\ ThreadsIdle

\* exit code of the probe's process: 0 when the service answers
ProbeExit(probe, up) == IF probe \in up THEN 0 ELSE 1

\* a probe repeated whatever it found before
ShouldProbe_always(done) == TRUE

\* `if not ping:` / `if not ssh:`
ShouldProbe(done) == ~done

\* a loop nothing ends
StillWaiting_forever(ping, ssh) == TRUE

\* `while (not ping) or (not ssh)`, `if not ping or not ssh`
StillWaiting(ping, ssh) == (~ping) \/ (~ssh)

\* ping, ssh = False, False; the loop is entered
wait_for_service(ssh_port) ==
    /\ wfs.pc = "idle"
    /\ ssh_last.pc # "fqdn"
    /\ wfs' = [NoWait EXCEPT !.pc = "ping", !.ssh_port = ssh_port, !.fqdn = wfs.fqdn]
    /\ UNCHANGED <<svc_up, flips, dep, sshVars>>
    /\ UNCHANGED <<netVars, aksVars, threadVars>>
    /\ UNCHANGED <<azureVars, shellVars, kvVars, apiVars, helmVars>>

\* what running a probe leaves in the record: the flag set on exit code 0
Probed(w, probe, flag, up) ==
    [w EXCEPT !.succeeded = IF ProbeExit(probe, up) = 0 THEN @ \cup {probe} ELSE @,
              !.rerun = IF probe \in w.succeeded THEN @ \cup {probe} ELSE @,
              ![probe] = IF ProbeExit(probe, up) = 0 THEN TRUE ELSE flag]

\* the probe at `pc` is due: its flag is not set yet
ProbeDue(w) == w.pc \in Probes /\ ShouldProbe(w[w.pc])

\* get_fqdn() is evaluated: for the command of a probe that is due, for the
\* entry add_ssh_config_entry writes, for a line of known_hosts, or by a
\* caller of the library
FqdnWanted == ProbeDue(wfs) \/ ssh_last.pc = "fqdn"

\* self.default_ip_name
default_ip_name == "a"

\* `if not public_ip_name: public_ip_name = self.default_ip_name`
PublicIpName(public_ip_name) ==
    IF Falsy(public_ip_name) THEN default_ip_name ELSE public_ip_name

\* get_fqdn(public_ip_name): `if not self._fqdn:`
\* self.api.public_ip(public_ip_name), the get-or-create method of the
\* manager, is called
get_fqdn ==
    /\ FqdnWanted
    /\ Falsy(wfs.fqdn)
    /\ ~wfs.calling
    /\ call.pc = "idle"
    /\ EnsureBegins("public_ip",
                    PublicIpName(IF ssh_last.pc = "fqdn"
                                 THEN ssh_last.public_ip_name ELSE None),
                    None)
    /\ wfs' = [wfs EXCEPT !.calling = TRUE]
    /\ UNCHANGED <<async_mode, resources, vm, manager_config, ncalls>>
    /\ UNCHANGED <<svc_up, flips, dep, sshVars>>
    /\ UNCHANGED <<netVars, aksVars, threadVars>>
    /\ UNCHANGED <<shellVars, kvVars, apiVars, helmVars>>

\* what get_fqdn() raises: the error of public_ip, which is not caught, or
\* the AttributeError of `.dns_settings.fqdn` on a public IP without DNS
\* settings; NoErr when it goes on
FqdnError(c) ==
    IF c.outcome = "raised" THEN c.error
    ELSE IF c.result = None THEN AttributeError
    ELSE NoErr

\* public_ip has returned or raised: an error ends the call that evaluated
\* get_fqdn(); else the name is kept in self._fqdn, and returned to the
\* caller of get_fqdn
get_fqdn_resumes ==
    /\ wfs.calling
    /\ call.pc = "idle"
    /\ IF FqdnError(last) # NoErr
       THEN /\ wfs' = IF ProbeDue(wfs)
                      THEN [wfs EXCEPT !.calling = FALSE, !.pc = "raised",
                                       !.error = FqdnError(last)]
                      ELSE [wfs EXCEPT !.calling = FALSE]
            /\ ssh_last' = IF ssh_last.pc = "fqdn"
                           THEN [ssh_last EXCEPT !.pc = "raised",
                                                 !.error = FqdnError(last)]
                           ELSE ssh_last
       ELSE /\ wfs' = [wfs EXCEPT !.calling = FALSE, !.fqdn = "vm.fqdn"]
            /\ ssh_last' = IF ssh_last.pc = "fqdn" /\ ssh_last.op = "get_fqdn"
                           THEN [ssh_last EXCEPT !.pc = "done"] ELSE ssh_last
    /\ UNCHANGED <<svc_up, flips, dep, ssh_dir_exists, ssh_config, ssh_config_is_file,
                   known_hosts>>
    /\ UNCHANGED <<netVars, aksVars, threadVars>>
    /\ UNCHANGED <<azureVars, shellVars, kvVars, apiVars, helmVars>>

\* `if not ping:` Popen(["ping", "-c", "1", self.get_fqdn()]); communicate();
\* `if process.poll() == 0: ping = True`
probe_ping ==
    /\ wfs.pc = "ping"
    /\ ProbeDue(wfs) => ~Falsy(wfs.fqdn)
    /\ wfs' = [(IF ShouldProbe(wfs.ping) THEN Probed(wfs, "ping", wfs.ping, svc_up) ELSE wfs)
                 EXCEPT !.pc = "ssh"]
    /\ UNCHANGED <<svc_up, flips, dep, sshVars>>
    /\ UNCHANGED <<netVars, aksVars, threadVars>>
    /\ UNCHANGED <<azureVars, shellVars, kvVars, apiVars, helmVars>>

\* `if not ssh:` Popen(["ssh", "-p", port, ..., self.get_fqdn(), "echo hi"]);
\* communicate(); `if process.poll() == 0: ssh = True`; then the sleep or the
\* end of the loop
probe_ssh ==
    /\ wfs.pc = "ssh"
    /\ ProbeDue(wfs) => ~Falsy(wfs.fqdn)
    /\ LET w == IF ShouldProbe(wfs.ssh) THEN Probed(wfs, "ssh", wfs.ssh, svc_up) ELSE wfs
       IN  wfs' = [w EXCEPT !.pc = IF StillWaiting(w.ping, w.ssh) THEN "sleep" ELSE "returned"]
    /\ UNCHANGED <<svc_up, flips, dep, sshVars>>
    /\ UNCHANGED <<netVars, aksVars, threadVars>>
    /\ UNCHANGED <<azureVars, shellVars, kvVars, apiVars, helmVars>>

\* time.sleep(1), the debug line, and the loop condition again
sleep ==
    /\ wfs.pc = "sleep"
    /\ wfs' = [wfs EXCEPT !.pc = IF StillWaiting(wfs.ping, wfs.ssh) THEN "ping" ELSE "returned"]
    /\ UNCHANGED <<svc_up, flips, dep, sshVars>>
    /\ UNCHANGED <<netVars, aksVars, threadVars>>
    /\ UNCHANGED <<azureVars, shellVars, kvVars, apiVars, helmVars>>

\* the host: a service comes up or goes down
ServiceChanges ==
    /\ flips < MaxFlips
    /\ \E probe \in Probes :
         svc_up' = IF probe \in svc_up THEN svc_up \ {probe} ELSE svc_up \cup {probe}
    /\ flips' = flips + 1
    /\ UNCHANGED <<wfs, dep, sshVars>>
    /\ UNCHANGED <<netVars, aksVars, threadVars>>
    /\ UNCHANGED <<azureVars, shellVars, kvVars, apiVars, helmVars>>

----------------------------------------------------------------------------
(* AzureVM.deploy: the defaults it fills in, then the methods of           *)
(* AzureManager one after the other, each running by the steps of the      *)
(* reconciler above.                                                        *)

StageIndex(stage) == CHOOSE k \in 1..Len(DeployStages) : DeployStages[k] = stage

\* the statement after `stage`, "done" after the last
NextStage(stage) ==
    IF StageIndex(stage) = Len(DeployStages) THEN "done"
    ELSE DeployStages[StageIndex(stage) + 1]

\* the arguments deploy fills in from self.api.config when they are not
\* given, in the order of its statements, with the key read for each
DefaultKeys ==
    <<[param |-> "nsg_name", key |-> "nsg"],
      [param |-> "vnet_name", key |-> "vnet"],
      [param |-> "vnet_addresses", key |-> "vnet_addresses"],
      [param |-> "subnet_name", key |-> "subnet"],
      [param |-> "subnet_address", key |-> "subnet_address"]>>

NameParams == {DefaultKeys[k].param : k \in 1..Len(DefaultKeys)}

DeployParams == NameParams \cup {"user", "password", "image"}

\* the arguments a caller of deploy gives
Givens ==
    {{}, NameParams \ {"vnet_name"}, NameParams, NameParams \cup {"user"},
     NameParams \cup {"user", "password"}, DeployParams}

\* the first key of DefaultKeys that deploy reads and the config lacks, ""
\* when there is none
MissingDefault(given, cfg) ==
    LET missing == {k \in 1..Len(DefaultKeys) :
                      DefaultKeys[k].param \notin given /\ DefaultKeys[k].key \notin cfg}
    IN  IF missing = {} THEN ""
        ELSE DefaultKeys[CHOOSE k \in missing : \A j \in missing : k <= j].key

\* what deploy passes to each get-or-create method
DeployArg(op) ==
    CASE op = "virtual_machine"        -> "nic1"
      [] op = "network_security_group" -> None
      [] op = "virtual_network"        -> "10.0.0.0/16"
      [] op = "subnet"                 -> "10.0.0.0/24"
      [] op = "public_ip"              -> None
      [] op = "network_interface"      -> "nsg1"

Request(kind, on) == [req |-> kind, on |-> on]

\* the provider requests of the call that has ended, as requests of deploy
RequestsOf(c) == [k \in 1..Len(c.reqs) |-> Request(c.reqs[k], c.op)]

\* a deploy that never takes the object for deployed
AlreadyDeployed_never(v) == FALSE

\* `if self.vm:`
AlreadyDeployed(v) == ~Falsy(v)

\* deploy returns or raises: its arguments are gone
DeployEnds(d, outcome, error) ==
    [d EXCEPT !.pc = "done", !.outcome = outcome, !.error = error,
              !.given = {}, !.keyvault = FALSE, !.calling = FALSE]

\* deploy(...) is called with the arguments `given`, on a manager that has
\* been handed a key vault or not: `if self.vm: log; return`
deploy ==
    /\ dep.pc \in {"idle", "done"}
    /\ dep.n < MaxDeploys
    /\ call.pc = "idle"
    /\ \E given \in Givens, keyvault \in BOOLEAN :
         LET d == [NoDeploy EXCEPT !.n = dep.n + 1, !.was_bound = (vm # None),
                                   !.given = given, !.keyvault = keyvault]
         IN  dep' = IF AlreadyDeployed(vm)
                    THEN DeployEnds(d, "returned", NoErr)
                    ELSE [d EXCEPT !.pc = DeployStages[1]]
    /\ UNCHANGED <<wfs, svc_up, flips, sshVars>>
    /\ UNCHANGED <<netVars, aksVars, threadVars>>
    /\ UNCHANGED <<azureVars, shellVars, kvVars, apiVars, helmVars>>

\* `if not nsg_name: nsg_name = self.api.config["nsg"]` and the four after
\* it; public_ip_name and nic_name are made of self.name
deploy_defaults ==
    /\ dep.pc = "defaults"
    /\ LET key == MissingDefault(dep.given, manager_config)
       IN  dep' = IF key # ""
                  THEN DeployEnds(dep, "raised", ConfigKeyError(key))
                  ELSE [dep EXCEPT !.pc = NextStage("defaults")]
    /\ UNCHANGED <<wfs, svc_up, flips, sshVars>>
    /\ UNCHANGED <<netVars, aksVars, threadVars>>
    /\ UNCHANGED <<azureVars, shellVars, kvVars, apiVars, helmVars>>

\* `if not user: user = self.api.keyvault.get_secret(self.api.config["secrets"]["username"])`
\* and the same for password: the attribute, then the key, then the request,
\* which may raise
deploy_secret ==
    /\ dep.pc \in {"user", "password"}
    /\ IF dep.pc \in dep.given
       THEN dep' = [dep EXCEPT !.pc = NextStage(dep.pc)]
       ELSE IF ~dep.keyvault
       THEN dep' = DeployEnds(dep, "raised", AttributeError)
       ELSE IF "secrets" \notin manager_config
       THEN dep' = DeployEnds(dep, "raised", ConfigKeyError("secrets"))
       ELSE LET d == [dep EXCEPT !.reqs = Append(@, Request("get_secret", "keyvault"))]
            IN  \/ dep' = [d EXCEPT !.pc = NextStage(dep.pc)]
                \/ dep' = DeployEnds(d, "raised", CloudError("AuthorizationFailed"))
    /\ UNCHANGED <<wfs, svc_up, flips, sshVars>>
    /\ UNCHANGED <<netVars, aksVars, threadVars>>
    /\ UNCHANGED <<azureVars, shellVars, kvVars, apiVars, helmVars>>

\* `if not image: image = self.api.config["ubuntu_image"]`; size = "small"
deploy_image ==
    /\ dep.pc = "image"
    /\ dep' = IF "image" \notin dep.given /\ "ubuntu_image" \notin manager_config
              THEN DeployEnds(dep, "raised", ConfigKeyError("ubuntu_image"))
              ELSE [dep EXCEPT !.pc = NextStage("image"), !.given = {},
                               !.keyvault = FALSE]
    /\ UNCHANGED <<wfs, svc_up, flips, sshVars>>
    /\ UNCHANGED <<netVars, aksVars, threadVars>>
    /\ UNCHANGED <<azureVars, shellVars, kvVars, apiVars, helmVars>>

\* allow_nsg_development(nsg), allow_nsg_ping(nsg) are called:
\* security_rules.create_or_update(rsg, nsg.name, rule, params), which may
\* raise, then self._async_wait(security_rule_job)
deploy_rule ==
    /\ dep.pc \in {"dev_ports", "ping_rule"}
    /\ ~dep.calling
    /\ call.pc = "idle"
    /\ LET c == [NewCall(dep.pc, "a", None) EXCEPT !.reqs = <<"create_or_update">>]
       IN  \/ /\ call' = [c EXCEPT !.pc = "async_wait", !.hstatus = "InProgress"]
              /\ UNCHANGED <<last, pending>>
           \/ Finish(c, "raised", CloudError("AuthorizationFailed"), None)
    /\ dep' = [dep EXCEPT !.calling = TRUE]
    /\ UNCHANGED <<async_mode, resources, vm, manager_config, ncalls>>
    /\ UNCHANGED <<wfs, svc_up, flips, sshVars>>
    /\ UNCHANGED <<netVars, aksVars, threadVars>>
    /\ UNCHANGED <<shellVars, kvVars, apiVars, helmVars>>

\* a get-or-create method is called by deploy; the arguments of
\* virtual_machine are evaluated first, self.api.config["vm_sizes"][size]
\* among them
deploy_ensure ==
    /\ dep.pc \in EnsureOps
    /\ ~dep.calling
    /\ call.pc = "idle"
    /\ IF dep.pc = "virtual_machine" /\ "vm_sizes" \notin manager_config
       THEN /\ dep' = DeployEnds(dep, "raised", ConfigKeyError("vm_sizes"))
            /\ UNCHANGED <<call, last, pending>>
       ELSE /\ EnsureBegins(dep.pc, "a", DeployArg(dep.pc))
            /\ dep' = [dep EXCEPT !.calling = TRUE]
    /\ UNCHANGED <<async_mode, resources, vm, manager_config, ncalls>>
    /\ UNCHANGED <<wfs, svc_up, flips, sshVars>>
    /\ UNCHANGED <<netVars, aksVars, threadVars>>
    /\ UNCHANGED <<shellVars, kvVars, apiVars, helmVars>>

\* the method deploy called has returned or raised: what it raised is not
\* caught; what the last one returned is bound, `self.vm = ...`.  The
\* requests of the call's record go over into the request log of deploy.
deploy_resumes ==
    /\ dep.calling
    /\ call.pc = "idle"
    /\ LET d == [dep EXCEPT !.calling = FALSE, !.reqs = @ \o RequestsOf(last)]
       IN  IF last.outcome = "raised"
           THEN /\ dep' = DeployEnds(d, "raised", last.error)
                /\ UNCHANGED vm
           ELSE IF dep.pc = "virtual_machine"
           THEN /\ dep' = DeployEnds(d, "returned", NoErr)
                /\ vm' = "a"
           ELSE /\ dep' = [d EXCEPT !.pc = NextStage(dep.pc)]
                /\ UNCHANGED vm
    /\ last' = IdleCall
    /\ UNCHANGED <<async_mode, resources, pending, call, ncalls, manager_config>>
    /\ UNCHANGED <<wfs, svc_up, flips, sshVars>>
    /\ UNCHANGED <<netVars, aksVars, threadVars>>
    /\ UNCHANGED <<shellVars, kvVars, apiVars, helmVars>>

----------------------------------------------------------------------------
(* AzureVM.add_ssh_config_entry and remove_ssh_config_entry over            *)
(* $HOME/.ssh/config.  A line is the sequence of its pieces of text; the    *)
(* alias "gpu2" is the piece "gpu" followed by the piece "2", so that the   *)
(* text of alias "gpu" is a prefix of it.                                   *)

Aliases == {<<"gpu">>, <<"gpu", "2">>, <<"cpu">>}

\* the entry names the calls are made with
EntryNames == {<<"gpu">>, <<"gpu", "2">>}

\* `sub in line` of two Python strings
Occurs(sub, line) ==
    \E i \in 1..(Len(line) - Len(sub) + 1) :
        SubSeq(line, i, i + Len(sub) - 1) = sub

HostLine(alias) == <<"Host", " ">> \o alias \o <<"nl">>

\* a block as its owner wrote it: the Host line and one option
UserBlock(alias) ==
    << HostLine(alias),
       <<"  ", "HostName", " ">> \o alias \o <<".example.org", "nl">> >>

\* the lines of the text add_ssh_config_entry appends, as readlines() gives
\* them back: "\nHost {entry_name}\n     StrictHostKeyChecking no\n ..."
Entry(entry_name, fqdn) ==
    << <<"nl">>,
       HostLine(entry_name),
       <<"     ", "StrictHostKeyChecking", " ", "no", "nl">>,
       <<"     ", "HostName", " ", fqdn, "nl">>,
       <<"     ", "ForwardX11", " ", "yes", "nl">>,
       <<"     ", "Port", " ", "20022", "nl">> >>

\* f"Host {entry_name}" in line
StartsEntry(entry_name, line) == Occurs(<<"Host", " ">> \o entry_name, line)

\* "Host " in line
StartsBlock(line) == Occurs(<<"Host", " ">>, line)

\* the loop of remove_ssh_config_entry over the lines read, `found` and
\* `done` as they stand before the first of them
RECURSIVE clean_config(_, _, _, _)
clean_config(config, entry_name, found, done) ==
    IF config = <<>> THEN <<>>
    ELSE LET line   == Head(config)
             found1 == found \/ StartsEntry(entry_name, line)
             done1  == done \/ (~StartsEntry(entry_name, line) /\ found /\ StartsBlock(line))
         IN  (IF ~(found1 /\ ~done1) THEN <<line>> ELSE <<>>)
                \o clean_config(Tail(config), entry_name, found1, done1)

\* the file after remove_ssh_config_entry: untouched when it is no file
Removed(config, entry_name) == clean_config(config, entry_name, FALSE, FALSE)

\* the record of a call: `before` is the file as the call found it
SshCall(op, entry_name) ==
    [op |-> op, entry_name |-> entry_name, public_ip_name |-> None,
     n |-> ssh_last.n + 1, pc |-> "done", before |-> ssh_config, error |-> NoErr]

\* remove_ssh_config_entry(entry_name)
remove_ssh_config_entry(entry_name) ==
    /\ ssh_last.pc # "fqdn"
    /\ ssh_last.n < MaxSshCalls
    /\ ssh_last' = SshCall("remove", entry_name)
    /\ ssh_config' = IF ssh_config_is_file THEN Removed(ssh_config, entry_name)
                     ELSE ssh_config
    /\ UNCHANGED <<ssh_dir_exists, ssh_config_is_file, known_hosts>>
    /\ UNCHANGED <<wfs, svc_up, flips, dep>>
    /\ UNCHANGED <<netVars, aksVars, threadVars>>
    /\ UNCHANGED <<azureVars, shellVars, kvVars, apiVars, helmVars>>

\* add_ssh_config_entry(entry_name): remove_ssh_config_entry(entry_name);
\* then the text of the entry is built, self.get_fqdn() in it
add_ssh_config_entry(entry_name) ==
    /\ ssh_last.pc # "fqdn"
    /\ ssh_last.n < MaxSshCalls
    /\ ssh_last' = [SshCall("add", entry_name) EXCEPT !.pc = "fqdn"]
    /\ ssh_config' = IF ssh_config_is_file THEN Removed(ssh_config, entry_name)
                     ELSE ssh_config
    /\ UNCHANGED <<ssh_dir_exists, ssh_config_is_file, known_hosts>>
    /\ UNCHANGED <<wfs, svc_up, flips, dep>>
    /\ UNCHANGED <<netVars, aksVars, threadVars>>
    /\ UNCHANGED <<azureVars, shellVars, kvVars, apiVars, helmVars>>

FileNotFoundError == [type |-> "FileNotFoundError", code |-> "", msg |-> <<>>]

\* `with open(Path.home() / ".ssh/config", "a") as f: f.write(entry)`: the
\* entry appended to the file, which open(..., "a") creates if need be;
\* without the directory $HOME/.ssh open raises FileNotFoundError
write_entry ==
    /\ ssh_last.pc = "fqdn"
    /\ ssh_last.op = "add"
    /\ ~Falsy(wfs.fqdn)
    /\ IF ssh_dir_exists
       THEN /\ ssh_last' = [ssh_last EXCEPT !.pc = "done"]
            /\ ssh_config' = ssh_config \o Entry(ssh_last.entry_name, wfs.fqdn)
            /\ ssh_config_is_file' = TRUE
       ELSE /\ ssh_last' = [ssh_last EXCEPT !.pc = "raised", !.error = FileNotFoundError]
            /\ UNCHANGED <<ssh_config, ssh_config_is_file>>
    /\ UNCHANGED <<ssh_dir_exists, known_hosts>>
    /\ UNCHANGED <<wfs, svc_up, flips, dep>>
    /\ UNCHANGED <<netVars, aksVars, threadVars>>
    /\ UNCHANGED <<azureVars, shellVars, kvVars, apiVars, helmVars>>

\* the names get_fqdn is called with
PublicIpNames == {None, "a"}

\* get_fqdn(public_ip_name) called by the user of the library: self._fqdn
\* if it is set, else it is looked up first
get_fqdn_called(public_ip_name) ==
    /\ ssh_last.pc # "fqdn"
    /\ wfs.pc \in {"idle", "returned", "raised"}
    /\ ssh_last.n < MaxSshCalls
    /\ ssh_last' = [SshCall("get_fqdn", <<>>) EXCEPT
                       !.public_ip_name = public_ip_name,
                       !.pc = IF Falsy(wfs.fqdn) THEN "fqdn" ELSE "done"]
    /\ UNCHANGED <<ssh_dir_exists, ssh_config, ssh_config_is_file, known_hosts>>
    /\ UNCHANGED <<wfs, svc_up, flips, dep>>
    /\ UNCHANGED <<netVars, aksVars, threadVars>>
    /\ UNCHANGED <<azureVars, shellVars, kvVars, apiVars, helmVars>>

\* a line of known_hosts: the host, then its key
KnownHost(host) == host \o <<" ", "ssh-rsa", " ", "key", "nl">>

\* `[h for h in hosts if self.get_fqdn() not in h]`
KeptHosts(hosts, fqdn) == SelectSeq(hosts, LAMBDA h : ~Occurs(<<fqdn>>, h))

\* delete_from_known_hosts(): known_hosts is opened for reading, which
\* raises when it is no file; get_fqdn() is evaluated for its first line, if
\* it has one; the lines kept are written
delete_from_known_hosts ==
    /\ ssh_last.pc # "fqdn"
    /\ wfs.pc \in {"idle", "returned", "raised"}
    /\ ssh_last.n < MaxSshCalls
    /\ LET c == SshCall("delete_from_known_hosts", <<>>)
       IN  IF ~known_hosts.is_file
           THEN /\ ssh_last' = [c EXCEPT !.pc = "raised", !.error = FileNotFoundError]
                /\ UNCHANGED known_hosts
           ELSE IF known_hosts.lines # <<>> /\ Falsy(wfs.fqdn)
           THEN /\ ssh_last' = [c EXCEPT !.pc = "fqdn"]
                /\ UNCHANGED known_hosts
           ELSE /\ ssh_last' = c
                /\ known_hosts' = [known_hosts EXCEPT
                                     !.lines = KeptHosts(@, wfs.fqdn)]
    /\ UNCHANGED <<ssh_dir_exists, ssh_config, ssh_config_is_file>>
    /\ UNCHANGED <<wfs, svc_up, flips, dep>>
    /\ UNCHANGED <<netVars, aksVars, threadVars>>
    /\ UNCHANGED <<azureVars, shellVars, kvVars, apiVars, helmVars>>

\* `with open(Path.home() / ".ssh/known_hosts", "w") as f: f.writelines(hosts)`
\* once get_fqdn() has returned: the lines without the name are written
write_known_hosts ==
    /\ ssh_last.pc = "fqdn"
    /\ ssh_last.op = "delete_from_known_hosts"
    /\ ~Falsy(wfs.fqdn)
    /\ ssh_last' = [ssh_last EXCEPT !.pc = "done"]
    /\ known_hosts' = [known_hosts EXCEPT !.lines = KeptHosts(@, wfs.fqdn)]
    /\ UNCHANGED <<ssh_dir_exists, ssh_config, ssh_config_is_file>>
    /\ UNCHANGED <<wfs, svc_up, flips, dep>>
    /\ UNCHANGED <<netVars, aksVars, threadVars>>
    /\ UNCHANGED <<azureVars, shellVars, kvVars, apiVars, helmVars>>

\* the known_hosts files the calls may find: none, an empty one, the key of
\* another host, the keys of the VM and of another host
KnownHostsFiles ==
    {NoKnownHosts,
     [is_file |-> TRUE, lines |-> <<>>],
     [is_file |-> TRUE, lines |-> <<KnownHost(<<"other.example.org">>)>>],
     [is_file |-> TRUE, lines |-> <<KnownHost(<<"vm.fqdn">>),
                                   KnownHost(<<"other.example.org">>)>>]}

\* the files the calls may find: none, an empty one, or blocks of different
\* aliases as their owner wrote them
UserConfigs ==
    {<<>>}
      \cup {UserBlock(a) : a \in Aliases}
      \cup {UserBlock(p[1]) \o UserBlock(p[2]) :
                p \in {q \in Aliases \X Aliases : q[1] # q[2]}}

----------------------------------------------------------------------------
(* AzureManager.enable_vnet_service_endpoints *)

\* needed_endpoints = ["Microsoft.Storage", "Microsoft.Sql", "Microsoft.KeyVault"]
needed_endpoints == <<"Microsoft.Storage", "Microsoft.Sql", "Microsoft.KeyVault">>

\* the services a subnet may have endpoints of
Services == {"Microsoft.Storage", "Microsoft.Sql", "Microsoft.KeyVault", "Microsoft.Web"}

Elements(seq) == {seq[k] : k \in 1..Len(seq)}

\* an endpoint added whatever is enabled
NotEnabled_always(endpoint, enabled_endpoints) == TRUE

\* `endpoint not in enabled_endpoints`
NotEnabled(endpoint, enabled_endpoints) == endpoint \notin Elements(enabled_endpoints)

\* `for endpoint in needed_endpoints: if endpoint not in enabled_endpoints:
\*      subnetwork.service_endpoints.append({"service": endpoint})`
RECURSIVE AppendNeeded(_, _, _)
AppendNeeded(service_endpoints, needed, enabled_endpoints) ==
    IF needed = <<>> THEN service_endpoints
    ELSE AppendNeeded(
           IF NotEnabled(Head(needed), enabled_endpoints)
           THEN Append(service_endpoints, Head(needed))
           ELSE service_endpoints,
           Tail(needed), enabled_endpoints)

\* enable_vnet_service_endpoints(rsg, vnet, subnet, disable_...): subnets.get,
\* whose CloudError, not-found when there is no such subnet, is not caught;
\* the needed endpoints appended to the object read and its policies set to
\* Disabled if asked for
enable_vnet_service_endpoints(caller, disable_private_endpoint_policies) ==
    /\ ep[caller].pc \in {"idle", "done"}
    /\ ep[caller].n < MaxEndpointCalls
    /\ \E o \in (IF endpoints.exists THEN {"found"} ELSE {"ResourceNotFound"})
                  \cup {"AuthorizationFailed"} :
       LET c == [NoEndpointCall EXCEPT
                    !.n = ep[caller].n + 1,
                    !.disable = disable_private_endpoint_policies,
                    !.returns = ep[caller].returns,
                    !.before = endpoints.service_endpoints,
                    !.requests = 1,
                    !.after_returned = (\E d \in EndpointCallers : ep[d].returns > 0)]
           wanted == AppendNeeded(endpoints.service_endpoints, needed_endpoints,
                                  endpoints.service_endpoints)
       IN  ep' = [ep EXCEPT ![caller] =
                 IF IsCloudError(o)
                 THEN [c EXCEPT !.pc = "done", !.outcome = "raised"]
                 ELSE [c EXCEPT
                         !.pc = "create_or_update",
                         !.subnetwork =
                            [endpoints EXCEPT
                               !.service_endpoints = wanted,
                               !.private_endpoint_network_policies =
                                   IF disable_private_endpoint_policies
                                   THEN "Disabled" ELSE @]]]
    /\ UNCHANGED endpoints
    /\ UNCHANGED <<hostVars, aksVars, threadVars>>
    /\ UNCHANGED <<azureVars, shellVars, kvVars, apiVars, helmVars>>

\* subnets.create_or_update(rsg, vnet, subnet, subnetwork): the object the
\* caller read and changed is submitted whole, or the request raises
subnets_create_or_update(caller) ==
    /\ ep[caller].pc = "create_or_update"
    /\ \/ ep' = [ep EXCEPT ![caller].pc = "result",
                           ![caller].requests = @ + 1,
                           ![caller].submitted = ep[caller].subnetwork.service_endpoints,
                           ![caller].handle = "InProgress"]
       \/ ep' = [ep EXCEPT ![caller].pc = "done",
                           ![caller].requests = @ + 1,
                           ![caller].outcome = "raised"]
    /\ UNCHANGED endpoints
    /\ UNCHANGED <<hostVars, aksVars, threadVars>>
    /\ UNCHANGED <<azureVars, shellVars, kvVars, apiVars, helmVars>>

\* the provider ends the update of a caller: the subnet becomes the object
\* submitted, or the operation fails
subnet_update_ends(caller) ==
    /\ ep[caller].handle = "InProgress"
    /\ \/ /\ ep' = [ep EXCEPT ![caller].handle = "Succeeded"]
          /\ endpoints' = ep[caller].subnetwork
       \/ /\ ep' = [ep EXCEPT ![caller].handle = "Failed"]
          /\ UNCHANGED endpoints
    /\ UNCHANGED <<hostVars, aksVars, threadVars>>
    /\ UNCHANGED <<azureVars, shellVars, kvVars, apiVars, helmVars>>

\* async_subnet_update.result(): waits for the operation to end and raises
\* its error
subnet_update_result(caller) ==
    /\ ep[caller].pc = "result"
    /\ ep[caller].handle \in Terminal
    /\ ep' = [ep EXCEPT ![caller] =
              IF WaitOutcome(@.handle, NoErr).do = "raise"
              THEN [@ EXCEPT !.pc = "done", !.outcome = "raised"]
              ELSE [@ EXCEPT !.pc = "done", !.outcome = "returned",
                             !.returns = @ + 1]]
    /\ UNCHANGED endpoints
    /\ UNCHANGED <<hostVars, aksVars, threadVars>>
    /\ UNCHANGED <<azureVars, shellVars, kvVars, apiVars, helmVars>>

\* the lists of endpoints a subnet can have: no service twice
EndpointLists ==
    {<<>>}
      \cup {<<a>> : a \in Services}
      \cup {<<p[1], p[2]>> : p \in {q \in Services \X Services : q[1] # q[2]}}
      \cup {<<p[1], p[2], p[3]>> :
              p \in {q \in Services \X Services \X Services :
                       q[1] # q[2] /\ q[1] # q[3] /\ q[2] # q[3]}}

----------------------------------------------------------------------------
(* get_latest_version_on_azure.  A version string is the sequence of its    *)
(* characters.                                                              *)

Digits == <<"0", "1", "2", "3", "4", "5", "6", "7", "8", "9">>

DigitValue(ch) == (CHOOSE k \in 1..Len(Digits) : Digits[k] = ch) - 1

\* the code point of a character of a version string
Ord(ch) == IF ch = "." THEN 46 ELSE 48 + DigitValue(ch)

\* a < b of two Python strings
RECURSIVE StrLess(_, _)
StrLess(a, b) ==
    IF b = <<>> THEN FALSE
    ELSE IF a = <<>> THEN TRUE
    ELSE IF Head(a) # Head(b) THEN Ord(Head(a)) < Ord(Head(b))
    ELSE StrLess(Tail(a), Tail(b))

\* the versions `az aks get-versions` may list
KnownVersions ==
    { <<"1", ".", "9", ".", "3">>,
      <<"1", ".", "1", "0", ".", "2">>,
      <<"1", ".", "1", "0", ".", "1", "1">>,
      <<"1", ".", "1", "1", ".", "0">> }

Orchestrator(v, preview) == [orchestratorVersion |-> v, isPreview |-> preview]

\* what `az aks get-versions` may print: each known version not at all, as a
\* stable one or as a preview
Listings ==
    { {Orchestrator(v, f[v] = "preview") : v \in {w \in KnownVersions : f[w] # "none"}} :
         f \in [KnownVersions -> {"none", "stable", "preview"}] }

\* stable = [i["orchestratorVersion"] for i in versions if not i["isPreview"]]
Stable(versions) == {i.orchestratorVersion : i \in {j \in versions : ~j.isPreview}}

\* stable.sort(); stable[-1]
LastSorted(stable) == CHOOSE v \in stable : \A w \in stable : ~StrLess(v, w)

\* get_latest_version_on_azure(location): the az command may exit non-zero,
\* which raises; stable[-1] of an empty list raises IndexError
get_latest_version_on_azure ==
    /\ aks.pc = "idle"
    /\ \E az_fails \in BOOLEAN :
         aks' = IF az_fails \/ Stable(aks.orchestrators) = {}
                THEN [aks EXCEPT !.pc = "done", !.outcome = "raised"]
                ELSE [aks EXCEPT !.pc = "done", !.outcome = "returned",
                                 !.result = LastSorted(Stable(aks.orchestrators))]
    /\ UNCHANGED <<hostVars, netVars, threadVars>>
    /\ UNCHANGED <<azureVars, shellVars, kvVars, apiVars, helmVars>>

----------------------------------------------------------------------------
(* Two threads of one process, each in AzureManager.virtual_network for the *)
(* same name.  The method takes no lock; between two provider requests of   *)
(* one thread the other thread may run.                                     *)

SharedRef == <<"virtual_network", "a">>

\* try: virtual_networks.get(rsg, name) ... : the lookup and what it decides
thread_lookup(t) ==
    /\ threads[t].pc = "idle"
    /\ \E o \in LookupOutcomes(SharedRef), a \in ArgsOf("virtual_network") :
         LET d == LookupDecision("virtual_network", o, a)
             c == [threads[t] EXCEPT !.arg = a, !.lookup = o]
         IN  threads' = [threads EXCEPT ![t] =
               CASE d.do = "return" -> [c EXCEPT !.pc = "done", !.outcome = "returned"]
                 [] d.do = "raise"  -> [c EXCEPT !.pc = "done", !.outcome = "raised"]
                 [] d.do = "create" -> [c EXCEPT !.pc = "location"]]
    /\ UNCHANGED azureVars
    /\ UNCHANGED <<hostVars, netVars, aksVars>>
    /\ UNCHANGED <<shellVars, kvVars, apiVars, helmVars>>

\* "location": self.get_location() of the request body: resource_groups.get,
\* whose CloudError is not caught
thread_location(t) ==
    /\ threads[t].pc = "location"
    /\ \/ threads' = [threads EXCEPT ![t].pc = "create"]
       \/ threads' = [threads EXCEPT ![t].pc = "done", ![t].outcome = "raised"]
    /\ UNCHANGED azureVars
    /\ UNCHANGED <<hostVars, netVars, aksVars>>
    /\ UNCHANGED <<shellVars, kvVars, apiVars, helmVars>>

\* virtual_networks.create_or_update(rsg, name, vnet_config): submitted, the
\* provider possibly listing the network while the operation runs; or the
\* request raises and the call ends with no handle
thread_create(t) ==
    /\ threads[t].pc = "create"
    /\ \/ /\ threads' = [threads EXCEPT ![t].pc = "async_wait",
                                         ![t].creates = @ + 1,
                                         ![t].hstatus = "InProgress"]
          /\ \E listed \in BOOLEAN :
               resources' = IF listed
                            THEN [resources EXCEPT ![SharedRef] =
                                    CreateConfig("virtual_network", "a", threads[t].arg)]
                            ELSE resources
       \/ /\ threads' = [threads EXCEPT ![t].pc = "done",
                                         ![t].creates = @ + 1,
                                         ![t].outcome = "raised"]
          /\ UNCHANGED resources
    /\ UNCHANGED <<async_mode, pending, vm, call, last, ncalls, manager_config>>
    /\ UNCHANGED <<hostVars, netVars, aksVars>>
    /\ UNCHANGED <<shellVars, kvVars, apiVars, helmVars>>

\* the provider ends the operation a thread submitted: the network is
\* created, or the operation fails
thread_operation_ends(t) ==
    /\ threads[t].hstatus = "InProgress"
    /\ \/ /\ threads' = [threads EXCEPT ![t].hstatus = "Succeeded"]
          /\ resources' = ProviderEffect(resources, "virtual_network", "a",
                              CreateConfig("virtual_network", "a", threads[t].arg))
       \/ /\ threads' = [threads EXCEPT ![t].hstatus = "Failed"]
          /\ UNCHANGED resources
    /\ UNCHANGED <<async_mode, pending, vm, call, last, ncalls, manager_config>>
    /\ UNCHANGED <<hostVars, netVars, aksVars>>
    /\ UNCHANGED <<shellVars, kvVars, apiVars, helmVars>>

\* self._async_wait(async_vnet_creation): handle.wait() unless in async mode,
\* which blocks until the operation has ended and raises its error
thread_async_wait(t) ==
    /\ threads[t].pc = "async_wait"
    /\ IF AsyncWaitBlocks(async_mode, FALSE)
       THEN /\ threads[t].hstatus \in Terminal
            /\ threads' = [threads EXCEPT ![t] =
                  IF WaitOutcome(@.hstatus, NoErr).do = "raise"
                  THEN [@ EXCEPT !.pc = "done", !.waited = TRUE, !.outcome = "raised"]
                  ELSE [@ EXCEPT !.pc = "get", !.waited = TRUE]]
       ELSE threads' = [threads EXCEPT ![t].pc = "get"]
    /\ UNCHANGED azureVars
    /\ UNCHANGED <<hostVars, netVars, aksVars>>
    /\ UNCHANGED <<shellVars, kvVars, apiVars, helmVars>>

\* return virtual_networks.get(rsg, name): the closing get, whose CloudError
\* is not caught
thread_returns(t) ==
    /\ threads[t].pc = "get"
    /\ \E o \in LookupOutcomes(SharedRef) :
         threads' = [threads EXCEPT
                       ![t].pc = "done",
                       ![t].outcome = IF IsCloudError(o) THEN "raised" ELSE "returned"]
    /\ UNCHANGED azureVars
    /\ UNCHANGED <<hostVars, netVars, aksVars>>
    /\ UNCHANGED <<shellVars, kvVars, apiVars, helmVars>>

\* a manager over a provider that holds nothing; `configs` are the dicts
\* its config may be
ManagerOver(configs) ==
    /\ async_mode \in BOOLEAN
    /\ resources = [r \in Refs |-> Absent]
    /\ pending = {}
    /\ vm = None
    /\ call = IdleCall
    /\ manager_config \in configs
    /\ last = IdleCall
    /\ ncalls = 0

\* the manager as its constructor leaves it: self.config = {}
AzureInit == ManagerOver({{}})

\* no shell command runs and no key vault is held beside the reconciler
NoCleanup ==
    /\ ShellInit /\ target_exists = NoTargets
    /\ KvInit /\ vault = "absent" /\ ~kv_foreign
    /\ ApiIdle
    /\ HelmIdle
    /\ OtherIdle

Init == ManagerOver(Configs) /\ NoCleanup

Next ==
    \/ virtual_machine
    \/ network_security_group
    \/ virtual_network
    \/ subnet
    \/ public_ip
    \/ network_interface
    \/ get_location
    \/ create_or_update
    \/ delete
    \/ delete_wait
    \/ delete_rsg
    \/ \E b \in BOOLEAN : set_async(b)
    \/ _async_wait
    \/ final_get
    \/ ProviderFinishes
    \/ ProviderFinishesPending

Spec == Init /\ [][Next]_vars

----------------------------------------------------------------------------
(* An AzureVM object over the manager.  AzureVM(api, vm) with a              *)
(* VirtualMachine instance binds it without a provider request, so the      *)
(* object may start bound.                                                  *)

InitVM ==
    /\ async_mode \in BOOLEAN
    /\ resources = [r \in Refs |-> Absent]
    /\ pending = {}
    /\ vm \in {None} \cup Names
    /\ call = IdleCall
    /\ manager_config \in Configs
    /\ last = IdleCall
    /\ ncalls = 0
    /\ NoCleanup

NextVM ==
    \/ virtual_machine
    \/ create_or_update
    \/ \E b \in BOOLEAN : set_async(b)
    \/ _async_wait
    \/ final_get
    \/ AzureVM_init
    \/ restart
    \/ power_off
    \/ start
    \/ async_wait_handle
    \/ ProviderFinishes
    \/ ProviderFinishesPending

SpecVM == InitVM /\ [][NextVM]_vars

----------------------------------------------------------------------------
(* One run_shell_command invocation and its child *)

InitShell ==
    /\ AzureInit /\ ~async_mode
    /\ ShellInit
    /\ KvInit /\ vault = "absent" /\ ~kv_foreign
    /\ ApiIdle
    /\ HelmIdle
    /\ OtherIdle

SpecShell == InitShell /\ [][ShellNext]_vars

\* a cleanup that deletes: through kubectl or helm, or a key vault
NextDelete ==
    \/ Popen
    \/ Returned
    \/ readline
    \/ poll
    \/ wait
    \/ communicate_read
    \/ communicate_done
    \/ ChildWrites
    \/ ChildExits
    \/ \E purge \in BOOLEAN, fail_ok \in BOOLEAN : delete_keyvault(purge, fail_ok)
    \/ vaults_delete
    \/ begin_purge_deleted
    \/ purge_wait

InitDelete ==
    /\ AzureInit /\ ~async_mode
    /\ ShellInit
    /\ KvInit
    /\ target_exists = NoTargets \/ (vault = "absent" /\ ~kv_foreign)
    /\ ApiIdle
    /\ HelmIdle
    /\ OtherIdle

SpecDelete == InitDelete /\ [][NextDelete]_vars

----------------------------------------------------------------------------
(* The credential lookups over every credential file *)

InitCred ==
    /\ AzureInit /\ ~async_mode
    /\ ShellInit /\ target_exists = NoTargets
    /\ KvInit /\ vault = "absent" /\ ~kv_foreign
    /\ HelmIdle
    /\ OtherIdle
    /\ auth_is_file = TRUE
    /\ auth \in AuthFiles
    /\ cred = NoCred
    /\ ClientsInit
    /\ ManagerIdle

NextCred ==
    \/ get_tenant_id
    \/ get_client_id
    \/ get_client_secret
    \/ get_subscription_id

SpecCred == InitCred /\ [][NextCred]_vars

----------------------------------------------------------------------------
(* One AzureKeyVault object through its create and delete calls *)

InitKv ==
    /\ AzureInit /\ ~async_mode
    /\ ShellInit /\ target_exists = NoTargets
    /\ KvInit
    /\ ApiIdle
    /\ HelmIdle
    /\ OtherIdle

NextKv ==
    \/ create_keyvault
    \/ list_deleted
    \/ check_name_availability
    \/ get_object_id
    \/ begin_create_or_update
    \/ kv_wait
    \/ set_secret
    \/ kv_sleep
    \/ begin_delete_secret
    \/ poller_wait
    \/ purge_deleted_secret
    \/ \E purge \in BOOLEAN, fail_ok \in BOOLEAN : delete_keyvault(purge, fail_ok)
    \/ vaults_delete
    \/ begin_purge_deleted
    \/ purge_wait

SpecKv == InitKv /\ [][NextKv]_vars

----------------------------------------------------------------------------
(* One AzureApi object and its client cache, single-threaded *)

InitClient == InitKv /\ vault = "absent" /\ ~kv_foreign

NextClient == \E client_class \in ClientClasses : client(client_class)

SpecClient == InitClient /\ [][NextClient]_vars

----------------------------------------------------------------------------
(* The construction of one AzureManager *)

\* the credential files a manager is constructed over: each key there or not
ManagerAuthFiles == [AuthKeys -> {"x", Missing}]

InitManager ==
    /\ AzureInit
    /\ ShellInit /\ target_exists = NoTargets
    /\ KvInit /\ vault = "absent" /\ ~kv_foreign
    /\ HelmIdle
    /\ OtherIdle
    /\ auth_is_file \in BOOLEAN
    /\ auth \in (IF auth_is_file THEN ManagerAuthFiles
                 ELSE {[k \in AuthKeys |-> Missing]})
    /\ cred = NoCred
    /\ ClientsInit
    /\ mgr = NoManager
    /\ rsg_state \in {Absent} \cup ProvisioningStates

NextManager ==
    \/ \E create_rsg \in BOOLEAN : AzureManager_init(create_rsg)
    \/ rsg_create_or_update
    \/ rsg_poll
    \/ ProviderRsg

SpecManager == InitManager /\ [][NextManager]_vars

----------------------------------------------------------------------------
(* HelmAPI calls, one after the other; every helm command exits *)

InitHelm ==
    /\ AzureInit /\ ~async_mode
    /\ ShellInit /\ target_exists = NoTargets
    /\ KvInit /\ vault = "absent" /\ ~kv_foreign
    /\ ApiIdle
    /\ OtherIdle
    /\ helm = NoHelmCall
    /\ repos \in {<<>>, <<"stable">>}

NextHelm ==
    \/ \E name \in RepoNames : add_repo(name)
    \/ \E reinstall \in BOOLEAN : install(reinstall)
    \/ helm_command

SpecHelm == InitHelm /\ [][NextHelm]_vars /\ WF_vars(helm_command)

----------------------------------------------------------------------------
(* One wait_for_service call against a host whose services come and go;     *)
(* every probe process exits and every operation of the provider ends.      *)
(* The public IP of the VM is absent, held with DNS settings or held        *)
(* without; self._fqdn is unset or kept from an earlier get_fqdn().         *)

PublicIpsBefore == {Absent, "cfg0", None}

\* no call running, self._fqdn unset or kept
FqdnCaches == {NoWait, [NoWait EXCEPT !.fqdn = "vm.fqdn"]}

InitWait ==
    /\ async_mode \in BOOLEAN
    /\ \E ip \in PublicIpsBefore :
          resources = [r \in Refs |-> IF r[1] = "public_ip" THEN ip ELSE Absent]
    /\ pending = {}
    /\ vm = None
    /\ call = IdleCall
    /\ manager_config = {}
    /\ last = IdleCall
    /\ ncalls = 0
    /\ ShellInit /\ target_exists = NoTargets
    /\ KvInit /\ vault = "absent" /\ ~kv_foreign
    /\ ApiIdle
    /\ HelmIdle
    /\ wfs \in FqdnCaches
    /\ svc_up \in SUBSET Probes
    /\ flips = 0
    /\ dep = NoDeploy
    /\ SshIdle
    /\ NetIdle /\ AksIdle /\ ThreadsIdle

\* the statements of the one thread that runs the call
WaitStep ==
    \/ probe_ping
    \/ probe_ssh
    \/ sleep
    \/ get_fqdn
    \/ get_fqdn_resumes
    \/ get_location
    \/ create_or_update
    \/ _async_wait
    \/ final_get

\* the calls on the object: wait_for_service, with a get_fqdn before it
NextWait ==
    \/ \E ssh_port \in SshPorts : wait_for_service(ssh_port)
    \/ \E public_ip_name \in PublicIpNames :
          ssh_last.n = 0 /\ wfs.pc = "idle" /\ get_fqdn_called(public_ip_name)
    \/ probe_ping
    \/ probe_ssh
    \/ sleep
    \/ get_fqdn
    \/ get_fqdn_resumes
    \/ get_location
    \/ create_or_update
    \/ _async_wait
    \/ final_get
    \/ ProviderFinishes
    \/ ProviderFinishesPending
    \/ ServiceChanges

SpecWait ==
    InitWait /\ [][NextWait]_vars /\ WF_vars(WaitStep)

----------------------------------------------------------------------------
(* Deploys of one AzureVM object, bound or not, over any provider content   *)

\* what earlier deploys have left at the provider: any of the resources
DeployedBefore ==
    {[r \in Refs |-> IF r[1] \in held
                     THEN CreateConfig(r[1], r[2], DeployArg(r[1])) ELSE Absent] :
        held \in SUBSET EnsureOps}

InitDeploy ==
    /\ async_mode \in BOOLEAN
    /\ resources \in DeployedBefore
    /\ pending = {}
    /\ vm \in {None} \cup Names
    /\ call = IdleCall
    /\ manager_config \in Configs
    /\ last = IdleCall
    /\ ncalls = 0
    /\ NoCleanup

NextDeploy ==
    \/ deploy
    \/ deploy_defaults
    \/ deploy_secret
    \/ deploy_image
    \/ deploy_rule
    \/ deploy_ensure
    \/ deploy_resumes
    \/ get_location
    \/ create_or_update
    \/ _async_wait
    \/ final_get
    \/ ProviderFinishes
    \/ ProviderFinishesPending

SpecDeploy == InitDeploy /\ [][NextDeploy]_vars

----------------------------------------------------------------------------
(* add_ssh_config_entry / remove_ssh_config_entry calls over one file       *)

InitSsh ==
    /\ AzureInit
    /\ ShellInit /\ target_exists = NoTargets
    /\ KvInit /\ vault = "absent" /\ ~kv_foreign
    /\ ApiIdle
    /\ HelmIdle
    /\ wfs \in FqdnCaches /\ svc_up = {} /\ flips = 0 /\ dep = NoDeploy
    /\ NetIdle /\ AksIdle /\ ThreadsIdle
    /\ ssh_dir_exists \in BOOLEAN
    /\ ssh_config \in (IF ssh_dir_exists THEN UserConfigs ELSE {<<>>})
    /\ ssh_config_is_file \in IF ssh_config = <<>>
                              THEN (IF ssh_dir_exists THEN BOOLEAN ELSE {FALSE})
                              ELSE {TRUE}
    /\ known_hosts \in (IF ssh_dir_exists THEN KnownHostsFiles ELSE {NoKnownHosts})
    /\ ssh_last = NoSshCall

NextSsh ==
    \/ \E entry_name \in EntryNames : add_ssh_config_entry(entry_name)
    \/ \E entry_name \in EntryNames : remove_ssh_config_entry(entry_name)
    \/ write_entry
    \/ \E public_ip_name \in PublicIpNames : get_fqdn_called(public_ip_name)
    \/ delete_from_known_hosts
    \/ write_known_hosts
    \/ get_fqdn
    \/ get_fqdn_resumes
    \/ get_location
    \/ create_or_update
    \/ _async_wait
    \/ final_get
    \/ ProviderFinishes
    \/ ProviderFinishesPending

SpecSsh == InitSsh /\ [][NextSsh]_vars

----------------------------------------------------------------------------
(* enable_vnet_service_endpoints calls on one subnet *)

InitEndpoints ==
    /\ AzureInit /\ ~async_mode
    /\ ShellInit /\ target_exists = NoTargets
    /\ KvInit /\ vault = "absent" /\ ~kv_foreign
    /\ ApiIdle
    /\ HelmIdle
    /\ HostIdle /\ AksIdle /\ ThreadsIdle
    /\ \E exists \in BOOLEAN, l \in EndpointLists :
          endpoints = SubnetOf(exists, IF exists THEN l ELSE <<>>)
    /\ ep = NoEndpointCalls

NextEndpoints ==
    \E caller \in EndpointCallers :
        \/ \E disable \in BOOLEAN : enable_vnet_service_endpoints(caller, disable)
        \/ subnets_create_or_update(caller)
        \/ subnet_update_ends(caller)
        \/ subnet_update_result(caller)

SpecEndpoints == InitEndpoints /\ [][NextEndpoints]_vars

----------------------------------------------------------------------------
(* get_latest_version_on_azure over every listing *)

InitAks ==
    /\ AzureInit /\ ~async_mode
    /\ ShellInit /\ target_exists = NoTargets
    /\ KvInit /\ vault = "absent" /\ ~kv_foreign
    /\ ApiIdle
    /\ HelmIdle
    /\ HostIdle /\ NetIdle /\ ThreadsIdle
    /\ \E l \in Listings : aks = [NoAksCall EXCEPT !.orchestrators = l]

NextAks == get_latest_version_on_azure

SpecAks == InitAks /\ [][NextAks]_vars

----------------------------------------------------------------------------
(* Two concurrent virtual_network calls for one name, the network absent    *)

InitThreads ==
    /\ AzureInit
    /\ NoCleanup

NextThreads ==
    \E t \in Threads :
        \/ thread_lookup(t)
        \/ thread_location(t)
        \/ thread_create(t)
        \/ thread_operation_ends(t)
        \/ thread_async_wait(t)
        \/ thread_returns(t)

SpecThreads == InitThreads /\ [][NextThreads]_vars

----------------------------------------------------------------------------
(* Properties of the reconciler *)

\* the step in which a library call ends: last' is its record, last the
\* record of the call before it
Finishing == (call'.pc = "idle") /\ (call.pc # "idle" \/ ncalls' # ncalls)

\* the words of `sub` occur in `msg`, in a row
Contains(msg, sub) ==
    \E i \in 1..(Len(msg) - Len(sub) + 1) :
        SubSeq(msg, i, i + Len(sub) - 1) = sub

\* C1: two get-or-create calls in sequence, same method, name and desired
\* state, both in synchronous mode, the first having returned: the second is
\* a lookup hit that submits no create_or_update and returns the existing
\* resource, and the two submit at most one create_or_update in total.
C1_EnsureTwiceOneCreate ==
    [][ ( /\ Finishing
          /\ last.op \in EnsureOps
          /\ last'.op = last.op /\ last'.name = last.name /\ last'.arg = last.arg
          /\ ~last.mode /\ ~last'.mode
          /\ last.outcome = "returned" )
        => ( /\ last'.lookup = "found"
             /\ last'.creates = 0
             /\ last.creates + last'.creates <= 1
             /\ last'.outcome = "returned"
             /\ last'.result = resources[<<last.op, last.name>>] ) ]_vars

\* C2: a get-or-create call whose lookup finds the resource returns it in the
\* same step, submits no create_or_update, leaves the provider as it was, and
\* does not look at the desired state.
C2_LookupHitReturnsUnchanged ==
    [][ (Finishing /\ last'.op \in EnsureOps /\ last'.lookup = "found")
        => ( /\ call.pc = "idle"
             /\ last'.outcome = "returned"
             /\ last'.result = resources[<<last'.op, last'.name>>]
             /\ last'.result # Absent
             /\ last'.creates = 0
             /\ resources' = resources
             /\ pending' = pending ) ]_vars

\* a lookup hit with a desired state that lacks the required field and so
\* differs from the resource returned
C2_Witness ==
    /\ last.op \in {"virtual_network", "subnet", "virtual_machine"}
    /\ last.lookup = "found"
    /\ Falsy(last.arg)
    /\ last.outcome = "returned"
    /\ last.result \notin {Absent, last.arg}

RequiredFieldWords(op) ==
    CASE op = "virtual_machine" -> <<"network", "interface">>
      [] op = "virtual_network" -> <<"address", "prefix">>
      [] op = "subnet"          -> <<"address", "prefix">>

\* C3: a lookup miss with the required field absent ends the call with an
\* AzureError whose message names the field, with no create_or_update
\* submitted and the provider unchanged.
C3_MissingFieldFailsBeforeCreate ==
    [][ ( /\ Finishing
          /\ last'.op \in {"virtual_machine", "virtual_network", "subnet"}
          /\ IsCloudError(last'.lookup)
          /\ Falsy(last'.arg) )
        => ( /\ call.pc = "idle"
             /\ last'.outcome = "raised"
             /\ last'.error.type = "AzureError"
             /\ Contains(last'.error.msg, RequiredFieldWords(last'.op))
             /\ last'.creates = 0
             /\ last'.hstatus = "none"
             /\ resources' = resources
             /\ pending' = pending ) ]_vars

\* a subnet call without address prefix that missed and raised
C3_Witness ==
    /\ last.op = "subnet"
    /\ last.lookup = "ResourceNotFound"
    /\ Falsy(last.arg)
    /\ last.outcome = "raised"
    /\ last.error = AzureError(MsgNoAddressPrefix)

\* C4: a call that went through _async_wait with async mode off or force_wait
\* set has waited and ends with its handle terminal, and while the handle is in
\* progress it cannot continue; with async mode on and force_wait unset it has
\* not waited and can always continue.  The mode is the one set_async left.
C4_AsyncWait ==
    /\ (last.hstatus # "none" /\ (~last.mode \/ last.force))
          => (last.waited /\ last.hstatus \in Terminal)
    /\ (last.hstatus # "none" /\ last.mode /\ ~last.force) => ~last.waited
    /\ call.pc # "idle" => call.mode = async_mode
    /\ (call.pc = "async_wait" /\ (~async_mode \/ call.force)
            /\ call.hstatus = "InProgress") => ~ENABLED _async_wait
    /\ (call.pc = "async_wait" /\ async_mode /\ ~call.force) => ENABLED _async_wait

\* restart returned in async mode with its operation in progress, and a later
\* _async_wait with force_wait is held back by its handle
C4_Witness ==
    /\ last.op = "restart"
    /\ last.mode /\ ~last.waited
    /\ last.outcome = "returned"
    /\ last.hstatus = "InProgress"
    /\ call.op = "_async_wait" /\ call.force /\ async_mode
    /\ call.pc = "async_wait" /\ call.hstatus = "InProgress"

\* C5 as stated: whenever the create_or_update operation of a get-or-create
\* call has failed, the call raised the operation's error, submitted exactly
\* one create_or_update and made no provider request after the failure.
C5_FailureSurfaces ==
    (last.op \in EnsureOps /\ last.hstatus = "Failed")
        => ( /\ last.outcome = "raised"
             /\ last.error = last.herror
             /\ last.creates = 1
             /\ last.reqAfterFail = 0 )

\* C5 amended: the same for a call that waited for its operation (async mode
\* off).
C5_FailureSurfacesWhenWaiting ==
    (last.op \in EnsureOps /\ last.hstatus = "Failed" /\ ~last.mode)
        => ( /\ last.waited
             /\ last.outcome = "raised"
             /\ last.error = last.herror
             /\ last.error.type = "CloudError"
             /\ last.error.code \in OpFailures
             /\ last.creates = 1
             /\ last.reqAfterFail = 0 )

\* a synchronous call raised the Conflict its operation ended with
C5_Witness ==
    /\ last.op \in EnsureOps
    /\ ~last.mode /\ last.waited
    /\ last.hstatus = "Failed"
    /\ last.outcome = "raised"
    /\ last.error = CloudError("Conflict")

\* C6: a lookup that fails with a provider error outside the not-found class
\* ends the call with that error and without a create_or_update; a not-found
\* lookup is never the error the call raises from its lookup.
C6_OnlyNotFoundIsMiss ==
    /\ (last.op \in EnsureOps /\ last.lookup = "AuthorizationFailed")
          => ( /\ last.outcome = "raised"
               /\ last.error = CloudError("AuthorizationFailed")
               /\ last.creates = 0 )
    /\ (call.op \in EnsureOps /\ call.lookup = "AuthorizationFailed")
          => call.pc = "idle"

----------------------------------------------------------------------------
(* Properties of deletion and of the shell executor *)

\* a delete through kubectl or helm has ended
ShellDeleteDone == sh.pc = "done" /\ sh.caller \in DeleteCallers

KvDeleteDone == kv_last.op = "delete_keyvault"

\* C7: a tolerant deletion of a resource the provider reports missing returns
\* without error, the non-tolerant one raises, and a tolerant deletion turns
\* no failure but the missing resource into success.
C7_TolerantOnlyAbsent ==
    /\ ShellDeleteDone =>
         /\ (sh.tolerate /\ child.cause = "absent") => sh.outcome = "returned"
         /\ (~sh.tolerate /\ child.cause = "absent") => sh.outcome = "raised"
         /\ (sh.tolerate /\ child.cause = "other") => sh.outcome = "raised"
    /\ KvDeleteDone =>
         /\ (kv_last.fail_ok /\ kv_last.cause = "absent") => kv_last.outcome = "returned"
         /\ (~kv_last.fail_ok /\ kv_last.cause = "absent") => kv_last.outcome = "raised"
         /\ (kv_last.fail_ok /\ kv_last.cause = "other") => kv_last.outcome = "raised"

\* C8: run_shell_command on a process that exits non-zero raises a failure
\* whose message contains the standard error text captured from the process,
\* and does not return.
C8_FailureEmbedsStderr ==
    (sh.pc = "done" /\ child.code # 0)
        => ( /\ sh.state = "Failed"
             /\ sh.exception.type = "RuntimeError"
             /\ Contains(sh.exception.msg, sh.stderr.data) )

\* bytes that are no UTF-8
Undecodable(buf) == ~Decodable(buf)

\* the logging sink holds the warning of a failed decoding
DecodeWarningLogged ==
    \E i \in 1..Len(sh.logs) :
        /\ sh.logs[i].level = "warning"
        /\ sh.logs[i].about = "could not decode"

\* C9: in both modes, undecodable bytes on a stream leave the call to end by
\* its exit code alone, the failed decoding is logged as a warning, the
\* stream that failed decoding is returned as empty text, and the other
\* stream is returned as the text of its bytes.
C9_UndecodableTolerated ==
    sh.pc = "done" =>
        /\ (sh.state = "Succeeded") = (child.code = 0)
        /\ (Undecodable(sh.outbuf) \/ Undecodable(sh.errbuf)) => DecodeWarningLogged
        /\ sh.stdout.kind = "str" /\ sh.stderr.kind = "str"
        /\ Undecodable(sh.errbuf) => sh.stderr = Str(<<>>)
        /\ (~sh.poll /\ Undecodable(sh.outbuf)) => sh.stdout = Str(<<>>)
        /\ Decodable(sh.errbuf) => sh.stderr = Str(sh.errbuf)
        /\ (~sh.poll /\ Decodable(sh.outbuf)) => sh.stdout = Str(sh.outbuf)

\* C10: an invocation (sh.n counts those before it) moves NotStarted ->
\* Running -> Succeeded or Failed and never on from there; the process is
\* launched once; the outcome is decided
\* after the process has terminated and been waited for; it is Succeeded, with
\* nothing raised, exactly when the exit code is 0.
C10_Lifecycle ==
    [][ /\ (sh'.n = sh.n /\ sh'.state # sh.state) =>
              <<sh.state, sh'.state>> \in
                 { <<"NotStarted", "Running">>,
                   <<"Running", "Succeeded">>, <<"Running", "Failed">> }
        /\ (sh'.n # sh.n) =>
              /\ sh'.n = sh.n + 1
              /\ sh.state \in {"Succeeded", "Failed"}
              /\ sh'.state = "NotStarted"
        /\ sh'.launches = (IF sh'.state = "NotStarted" THEN 0 ELSE 1)
        /\ sh'.state \in {"Succeeded", "Failed"} =>
              /\ child'.status = "exited"
              /\ sh'.seen_exit
              /\ (sh'.state = "Succeeded") = (child'.code = 0)
              /\ (sh'.state = "Succeeded") = (sh'.exception = NoException)
              /\ (sh'.state = "Succeeded" /\ sh'.caller = "direct") =>
                    sh'.outcome = "returned"
      ]_vars

\* a command killed by a signal: launched once, waited for, Failed
C10_Witness ==
    /\ sh.state = "Failed"
    /\ sh.launches = 1
    /\ child.status = "exited" /\ child.code = -15
    /\ sh.poll
    /\ sh.exception = RuntimeError(MsgNonZeroExit)

\* the lines of standard output the child wrote, as text: decoded and
\* stripped, in the order written
RECURSIVE WrittenLines(_)
WrittenLines(script) ==
    IF script = <<>> THEN <<>>
    ELSE LET w == Head(script)
         IN  IF w[1] = "out" /\ Decodable(w[2])
             THEN <<Strip(w[2])>> \o WrittenLines(Tail(script))
             ELSE WrittenLines(Tail(script))

\* the lines forwarded to the logging sink by the polling loop, in order
RECURSIVE LoggedLines(_)
LoggedLines(logs) ==
    IF logs = <<>> THEN <<>>
    ELSE IF Head(logs).about = "line"
         THEN <<Head(logs).what.data>> \o LoggedLines(Tail(logs))
         ELSE LoggedLines(Tail(logs))

\* C11: in polling mode, whatever the interleaving of the child's writes and
\* exit with the reads, every line the child wrote to standard output has been
\* forwarded to the logging sink and is in the returned stdout, in the order
\* written; none is lost that was unread when the exit was observed.
C11_NoLineLost ==
    (sh.pc = "done" /\ sh.poll) =>
        /\ LoggedLines(sh.logs) = WrittenLines(child.script)
        /\ sh.stdout = Str(Join(WrittenLines(child.script)))

----------------------------------------------------------------------------
(* Properties of AzureApi *)

\* what a lookup has to return for the pair of key names
PrimaryElseFallback(primary, fallback) ==
    IF auth[primary] # Missing THEN auth[primary] ELSE auth[fallback]

\* the file names the credential under one of its two keys
Named(primary, fallback) == auth[primary] # Missing \/ auth[fallback] # Missing

\* C12: each of tenant id, client id and client secret, once looked up, is the
\* value under the primary key when the file has that key and else the value
\* under the fallback key; a file that names each of the three under either
\* key resolves all three; the subscription id is the value of subscriptionId.
C12_CredentialLookup ==
    /\ cred.tenant_id # Unread =>
         /\ Named("tenantId", "tenant") =>
               cred.tenant_id = PrimaryElseFallback("tenantId", "tenant")
         /\ Named("tenantId", "tenant") = (cred.tenant_id \in AuthValues)
    /\ cred.client_id # Unread =>
         /\ Named("clientId", "appId") =>
               cred.client_id = PrimaryElseFallback("clientId", "appId")
         /\ Named("clientId", "appId") = (cred.client_id \in AuthValues)
    /\ cred.client_secret # Unread =>
         /\ Named("clientSecret", "password") =>
               cred.client_secret = PrimaryElseFallback("clientSecret", "password")
         /\ Named("clientSecret", "password") = (cred.client_secret \in AuthValues)
    /\ (cred.subscription_id # Unread /\ auth["subscriptionId"] # Missing) =>
         cred.subscription_id = auth["subscriptionId"]

\* the mixed file clientId / clientSecret / tenant / subscriptionId, with a
\* stale tenantId-less naming: all four values resolved
C12_Witness ==
    /\ auth["tenantId"] = Missing /\ auth["tenant"] = "y"
    /\ auth["clientId"] = "x" /\ auth["appId"] = "y"
    /\ auth["clientSecret"] = "y" /\ auth["password"] = Missing
    /\ auth["subscriptionId"] = "x"
    /\ cred = [tenant_id |-> "y", client_id |-> "x", client_secret |-> "y",
               subscription_id |-> "x"]

\* C15: over any sequence of client() calls on one AzureApi object, no client
\* class is constructed more than once, all calls for a class return one and
\* the same instance, which is the cached one, and a cache entry once made is
\* neither replaced nor removed.
C15_ClientCache ==
    [][ /\ \A c \in ClientClasses :
             /\ built'[c] <= 1
             /\ Cardinality(handed'[c]) <= 1
        /\ \A n \in ClassNames : clients[n] # None => clients'[n] = clients[n]
        /\ (client_calls' # client_calls /\ client_last'.outcome = "returned")
              => client_last'.result = clients'[ClassName(client_last'.class)]
      ]_vars

\* the same class asked for in three calls: constructed once, one instance
C15_Witness ==
    /\ client_calls >= 3
    /\ \E c \in ClientClasses :
         /\ built[c] = 1
         /\ handed[c] = {<<c, 1>>}
         /\ client_last.class = c
         /\ client_last.result = <<c, 1>>
         /\ clients[ClassName(c)] = <<c, 1>>

\* C17: the step that ends the construction of an AzureVM from a name has
\* submitted no create_or_update and holds no operation handle, leaves the
\* provider as it was, and binds the VM exactly when the provider holds a VM
\* of that name; a VM is created only by a virtual_machine call made outside
\* the constructor.
C17_ConstructorNeverDeploys ==
    [][ /\ (Finishing /\ last'.ctor) =>
             /\ last'.creates = 0
             /\ last'.hstatus = "none"
             /\ resources' = resources
             /\ pending' = pending
             /\ vm' = (IF resources[<<"virtual_machine", last'.name>>] # Absent
                      THEN last'.name ELSE None)
        /\ ~call'.ctor
        /\ \A name \in Names :
             ( /\ resources[<<"virtual_machine", name>>] = Absent
               /\ resources'[<<"virtual_machine", name>>] # Absent )
             => \/ /\ call.op = "virtual_machine" /\ ~call.ctor
                   /\ call.pc = "create" \/ call.creates = 1
                \/ pending' # pending
      ]_vars

\* C18: a construction with create_rsg has submitted one resource-group
\* create_or_update when it returns, and the last state its loop looked up,
\* and no earlier one, is Succeeded; a construction without create_rsg
\* submits no create_or_update and looks nothing up.
C18_ManagerConstruction ==
    /\ mgr.creates <= 1
    /\ (mgr.outcome = "returned" /\ mgr.create_rsg) =>
          /\ mgr.creates = 1
          /\ mgr.polls >= 1
          /\ mgr.seen # <<>>
          /\ mgr.seen[Len(mgr.seen)] = "Succeeded"
          /\ \A i \in 1..(Len(mgr.seen) - 1) : mgr.seen[i] # "Succeeded"
    /\ (mgr.pc # "none" /\ ~mgr.create_rsg) =>
          /\ mgr.creates = 0
          /\ mgr.polls = 0
          /\ mgr.seen = <<>>

\* the group was seen in creation, then Succeeded, and the constructor returned
C18_Witness ==
    /\ mgr.create_rsg
    /\ mgr.outcome = "returned"
    /\ mgr.creates = 1
    /\ mgr.seen = <<"Creating", "Succeeded">>

----------------------------------------------------------------------------
(* Properties of AzureKeyVault *)

\* the step in which a key vault call ends
KvStep(op) == kv_call.op = op /\ kv_call'.pc = "idle"

\* the name was taken when the call began: by a soft-deleted vault, or by a
\* vault in use
NameTaken == kv_call.was.vault \in {"deleted", "active"} \/ kv_foreign

\* the requests of the name check
NameCheckRequests == {"list_deleted", "check_name_availability"}

\* C13: create_keyvault for a name that is taken raises, the name-taken error
\* unless a request of the name check itself failed, with no create request
\* submitted at any step of the call, the provider's vault as it was and
\* kv.exists unchanged.
C13_TakenNameFailsBeforeCreate ==
    [][ /\ (kv_call'.op = "create_keyvault" /\ NameTaken')
            => (kv_call'.creates = 0 /\ kv_call'.pc \in {"idle"} \cup NameCheckRequests)
        /\ (KvStep("create_keyvault") /\ NameTaken)
            => ( /\ kv_last'.outcome = "raised"
                 /\ \/ kv_last'.error = MsgNameTaken
                    \/ kv_last'.error \in RequestAnswers /\ kv_last'.at \in NameCheckRequests
                 /\ kv_last'.at \in NameCheckRequests
                 /\ kv_last'.creates = 0
                 /\ vault' = kv_call.was.vault
                 /\ kv_exists' = kv_call.was.exists ) ]_vars

\* create_keyvault on the name of a soft-deleted vault has raised
C13_Witness ==
    /\ kv_last.op = "create_keyvault"
    /\ vault = "deleted"
    /\ kv_last.cause = "taken"
    /\ kv_last.outcome = "raised"
    /\ kv_last.creates = 0
    /\ ~kv_exists

\* C14: no existence value outlives the lookup it came from: whenever a key
\* vault call has ended (or none was made yet), what the library holds as the
\* vault's existence is what a lookup at the provider answers.
C14_NoExistenceCache ==
    (kv_call.pc = "idle" /\ kv_last.outcome # "blocked")
        => (kv_exists = (vault = "active"))

\* C16: a vault not listed at construction has exists false; after a
\* create_keyvault that returned exists is true; after a delete_keyvault that
\* returned exists is false; and the create_keyvault that follows a returned
\* delete_keyvault with purge finds the name available again, however often
\* this is repeated.
C16_VaultLifecycle ==
    [][ /\ (kv_calls = 0 /\ vault # "active") => ~kv_exists
        /\ (KvStep("create_keyvault") /\ kv_last'.outcome = "returned") => kv_exists'
        /\ (KvStep("delete_keyvault") /\ kv_last'.outcome = "returned") => ~kv_exists'
        /\ ( /\ KvStep("create_keyvault")
             /\ kv_last.op = "delete_keyvault" /\ kv_last.purge
             /\ kv_last.outcome = "returned" )
           => kv_last'.cause # "taken" ]_vars

----------------------------------------------------------------------------
(* Properties of HelmAPI *)

\* the runs of one helm command among the commands of the call
Runs(cmd) == SelectSeq(helm.cmds, LAMBDA c : c.cmd = cmd)

\* what holds of an add_repo call at every moment
AddRepoBounded ==
    helm.op = "add_repo" =>
        LET u == Runs("repo update")
        IN  /\ Len(u) <= retries
            /\ \A k \in 1..(Len(u) - 1) : ~u[k].ok
            /\ helm.pc = "repo update" => (Len(u) < retries /\ \A k \in 1..Len(u) : ~u[k].ok)
            /\ (helm.pc = "done" /\ helm.outcome = "returned" /\ u # <<>>) => u[Len(u)].ok
            /\ (helm.pc = "done" /\ helm.error = MsgCannotUpdate) <=>
                  (Len(u) = retries /\ \A k \in 1..Len(u) : ~u[k].ok)
            /\ helm.error = MsgCannotUpdate => helm.outcome = "raised"

\* C19: add_repo for an unregistered repo runs `helm repo update` at most 10
\* times, runs none after the first that succeeds, raises RuntimeError after
\* the 10th failure in a row, and, every helm command exiting, the call ends.
C19_BoundedRetry ==
    /\ []AddRepoBounded
    /\ [](helm.pc \in HelmCommands => <>(helm.pc = "done"))

\* ten updates failed in a row and the call raised
C19_Witness ==
    /\ helm.op = "add_repo"
    /\ helm.pc = "done"
    /\ helm.outcome = "raised"
    /\ helm.error = MsgCannotUpdate
    /\ Len(Runs("repo update")) = 10
    /\ helm.i = 10

\* the helm commands the call has run, in order
CommandsRun == [k \in 1..Len(helm.cmds) |-> helm.cmds[k].cmd]

\* C20: an install call runs, in this order: with reinstall, `helm uninstall`
\* (whose failure it tolerates) and then `helm install`; without reinstall,
\* `helm status` and then `helm upgrade` if status succeeded, `helm install`
\* if not.  It runs one install-or-upgrade command and ends with it.
C20_InstallSelectsCommand ==
    helm.op = "install" =>
        /\ Len(Runs("install")) + Len(Runs("upgrade")) <= 1
        /\ helm.reinstall =>
              /\ Runs("status") = <<>> /\ Runs("upgrade") = <<>>
              /\ helm.pc = "done" => CommandsRun = <<"uninstall", "install">>
              /\ helm.pc = "install" => CommandsRun = <<"uninstall">>
        /\ ~helm.reinstall =>
              /\ Runs("uninstall") = <<>>
              /\ helm.pc = "done" =>
                    CommandsRun = <<"status", IF helm.cmds[1].ok THEN "upgrade" ELSE "install">>
              /\ helm.pc \in {"install", "upgrade"} =>
                    /\ CommandsRun = <<"status">>
                    /\ helm.pc = (IF helm.cmds[1].ok THEN "upgrade" ELSE "install")
        /\ helm.pc = "done" =>
              (helm.outcome = "returned") = helm.cmds[Len(helm.cmds)].ok

\* a release that exists is upgraded: status succeeded, then upgrade ran
C20_Witness ==
    /\ helm.op = "install"
    /\ ~helm.reinstall
    /\ helm.pc = "done"
    /\ helm.cmds = <<[cmd |-> "status", ok |-> TRUE], [cmd |-> "upgrade", ok |-> TRUE]>>
    /\ helm.outcome = "returned"

\* the registry holds no name twice
NoDuplicates(rs) == \A j, k \in 1..Len(rs) : rs[j] = rs[k] => j = k

\* C21: the registry is one for all HelmAPI objects: an add_repo, on whichever
\* object, for a name some object's add_repo has registered runs no helm
\* command and leaves the registry as it is; an add_repo that returned has its
\* name in the registry; no name is in it twice and none is ever removed.
C21_SharedRegistry ==
    [][ /\ NoDuplicates(repos')
        /\ Len(repos) <= Len(repos') /\ SubSeq(repos', 1, Len(repos)) = repos
        /\ (helm'.n # helm.n /\ helm'.op = "add_repo" /\ InRepos(helm'.name, repos))
              => ( /\ helm'.pc = "done"
                   /\ helm'.outcome = "returned"
                   /\ helm'.cmds = <<>>
                   /\ repos' = repos )
        /\ (helm'.op = "add_repo" /\ helm'.pc = "done" /\ helm'.outcome = "returned")
              => InRepos(helm'.name, repos')
      ]_vars

\* the second object's add_repo for the name the first one registered: done
\* at once, no command run
C21_Witness ==
    /\ helm.n = 2
    /\ helm.op = "add_repo"
    /\ helm.inst = "helm_b"
    /\ helm.name = "jetstack"
    /\ helm.pc = "done"
    /\ helm.cmds = <<>>
    /\ repos = <<"jetstack">>

\* C29: a name is in the registry only when `helm repo add` and a `helm repo
\* update` have both succeeded for it: not while its add_repo is still
\* updating, and not after its add_repo raised.
C29_RegistryOnlyFullyRegistered ==
    (helm.op = "add_repo" /\ helm.cmds # <<>>) =>
        ( InRepos(helm.name, repos) =>
            /\ Runs("repo add") # <<>> /\ Runs("repo add")[1].ok
            /\ \E k \in 1..Len(Runs("repo update")) : Runs("repo update")[k].ok )

----------------------------------------------------------------------------
(* Properties of AzureVM.wait_for_service *)

\* C22: wait_for_service has returned only if the ping probe and the SSH
\* probe each exited 0 at least once (so while one has not, the call has not
\* returned); a probe that has exited 0 is not run again; and a call that
\* has the address its probes are run against, and during which both
\* services stay up from some point on, so that both probes succeed, returns.
C22_WaitsForBothProbes ==
    /\ [](wfs.pc = "returned" => wfs.succeeded = Probes)
    /\ [](wfs.rerun = {})
    /\ []((wfs.pc \notin {"idle", "raised"} /\ ~Falsy(wfs.fqdn) /\ [](svc_up = Probes))
            => <>(wfs.pc = "returned"))

\* the call returned after each probe exited 0 once, on a host whose ping
\* has gone down again since, the public IP of the probes' address created
\* on the way
C22_Witness ==
    /\ wfs.pc = "returned"
    /\ wfs.succeeded = Probes
    /\ wfs.rerun = {}
    /\ svc_up = {"ssh"}
    /\ last.op = "public_ip" /\ last.creates = 1
    /\ resources[<<"public_ip", "a">>] # Absent

----------------------------------------------------------------------------
(* Properties of AzureVM.deploy *)

\* the positions in the request log of the requests on `on`
RequestsOn(on) == {k \in 1..Len(dep.reqs) : dep.reqs[k].on = on}

\* the place of a request's target in the order nsg, dev-ports rule, ping
\* rule, vnet, subnet, public IP, NIC, VM; 0 for the key vault's secrets
EnsureOrder(on) ==
    CASE on = "keyvault"               -> 0
      [] on = "network_security_group" -> 1
      [] on = "dev_ports"              -> 2
      [] on = "ping_rule"              -> 3
      [] on = "virtual_network"        -> 4
      [] on = "subnet"                 -> 5
      [] on = "public_ip"              -> 6
      [] on = "network_interface"      -> 7
      [] on = "virtual_machine"        -> 8

\* the requests go through the order without going back and without leaving
\* a place out: every request on a resource comes after the requests on each
\* earlier one, and there are such requests
InEnsureOrder ==
    \A k \in 1..Len(dep.reqs) :
        LET here == EnsureOrder(dep.reqs[k].on)
            before == IF k = 1 THEN 0 ELSE EnsureOrder(dep.reqs[k - 1].on)
        IN  before <= here /\ here <= before + 1

\* C23: a deploy on an object whose VM is bound makes no provider request;
\* otherwise the requests go to the nsg, its dev-ports and ping rules, the
\* vnet, the subnet, the public IP, the NIC and then the VM, in this order, so
\* the VM create comes after the NIC lookup and create; and after a deploy
\* that returned the VM is bound, so that the next deploy makes no request.
C23_DeployOrderAndNoOp ==
    /\ dep.was_bound => (dep.reqs = <<>> /\ dep.pc = "done" /\ dep.outcome = "returned")
    /\ InEnsureOrder
    /\ (dep.pc = "done" /\ dep.outcome = "returned") => vm # None

\* a deploy that created the VM after ensuring the NIC
C23_Witness ==
    /\ dep.pc = "done"
    /\ dep.outcome = "returned"
    /\ ~dep.was_bound
    /\ \E k \in RequestsOn("virtual_machine") : dep.reqs[k].req = "create_or_update"
    /\ \E k \in RequestsOn("network_interface") : dep.reqs[k].req = "create_or_update"

----------------------------------------------------------------------------
(* Properties of the SSH config entries *)

\* the alias of a Host line, <<>> for any other line
AliasOf(line) ==
    IF Len(line) >= 3 /\ SubSeq(line, 1, 2) = <<"Host", " ">>
    THEN SubSeq(line, 3, Len(line) - 1)
    ELSE <<>>

\* the alias of the block line k of the file belongs to: that of the nearest
\* Host line at or above it, <<>> above the first
RECURSIVE BlockOf(_, _)
BlockOf(config, k) ==
    IF k = 0 THEN <<>>
    ELSE IF AliasOf(config[k]) # <<>> THEN AliasOf(config[k])
    ELSE BlockOf(config, k - 1)

\* the lines of the blocks of every alias but `alias`, in the file's order;
\* an empty line separates blocks and belongs to none
RECURSIVE LinesOfOthers(_, _, _)
LinesOfOthers(config, alias, k) ==
    IF k > Len(config) THEN <<>>
    ELSE (IF BlockOf(config, k) \notin {<<>>, alias} /\ config[k] # <<"nl">>
          THEN <<config[k]>> ELSE <<>>)
            \o LinesOfOthers(config, alias, k + 1)

HostBlocks(config, alias) == {k \in 1..Len(config) : config[k] = HostLine(alias)}

\* C24: after add_ssh_config_entry / remove_ssh_config_entry for an alias the
\* file holds exactly one Host block of the alias after an add and none after
\* a remove, and the lines of the Host blocks of every other alias, those
\* the alias is a prefix of included, are what they were, in their order.
C24_EntriesKeyedByAlias ==
    ssh_last.pc = "done" =>
        /\ Cardinality(HostBlocks(ssh_config, ssh_last.entry_name))
              = (IF ssh_last.op = "add" THEN 1 ELSE 0)
        /\ LinesOfOthers(ssh_config, ssh_last.entry_name, 1)
              = LinesOfOthers(ssh_last.before, ssh_last.entry_name, 1)

----------------------------------------------------------------------------
(* Properties of enable_vnet_service_endpoints *)

Occurrences(seq, x) == Cardinality({k \in 1..Len(seq) : seq[k] = x})

\* C25: the subnet a returned enable_vnet_service_endpoints submitted lists
\* Microsoft.Storage, Microsoft.Sql and Microsoft.KeyVault once each and
\* begins with the endpoints the subnet had; the call after a returned one
\* submits the subnet as it found it.
C25_EndpointsAdditive ==
    \A c \in EndpointCallers :
      ep[c].outcome = "returned" =>
        /\ \A k \in 1..Len(needed_endpoints) :
              Occurrences(ep[c].submitted, needed_endpoints[k]) = 1
        /\ Len(ep[c].before) <= Len(ep[c].submitted)
        /\ SubSeq(ep[c].submitted, 1, Len(ep[c].before)) = ep[c].before
        /\ endpoints.service_endpoints = ep[c].submitted
        /\ ep[c].after_returned => ep[c].submitted = ep[c].before

\* a second call after one that added Microsoft.Sql and Microsoft.KeyVault
\* behind an endpoint of another service
C25_Witness ==
    /\ ep["A"].n = 2
    /\ ep["A"].outcome = "returned"
    /\ ep["A"].after_returned
    /\ ep["A"].before =
         <<"Microsoft.Web", "Microsoft.Storage", "Microsoft.Sql", "Microsoft.KeyVault">>
    /\ ep["A"].submitted = ep["A"].before
    /\ ep["B"].outcome = "returned"
    /\ ep["B"].before = <<"Microsoft.Web">>

----------------------------------------------------------------------------
(* Properties of get_latest_version_on_azure *)

\* the number a run of digits writes
RECURSIVE Number(_)
Number(digits) ==
    IF digits = <<>> THEN 0
    ELSE 10 * Number(SubSeq(digits, 1, Len(digits) - 1)) + DigitValue(digits[Len(digits)])

\* the components of a version: the numbers between its dots
RECURSIVE Components(_, _)
Components(v, digits) ==
    IF v = <<>> THEN <<Number(digits)>>
    ELSE IF Head(v) = "." THEN <<Number(digits)>> \o Components(Tail(v), <<>>)
    ELSE Components(Tail(v), Append(digits, Head(v)))

\* a below b, component by component
RECURSIVE ComponentsLess(_, _)
ComponentsLess(a, b) ==
    IF b = <<>> THEN FALSE
    ELSE IF a = <<>> THEN TRUE
    ELSE IF Head(a) # Head(b) THEN Head(a) < Head(b)
    ELSE ComponentsLess(Tail(a), Tail(b))

VersionLess(v, w) == ComponentsLess(Components(v, <<>>), Components(w, <<>>))

\* C26: the version get_latest_version_on_azure returns is listed as not a
\* preview, and no listed non-preview version is above it component by
\* component (1.10.x is above 1.9.x).
C26_LatestStableVersion ==
    aks.outcome = "returned" =>
        /\ Orchestrator(aks.result, FALSE) \in aks.orchestrators
        /\ \A i \in aks.orchestrators :
              ~i.isPreview => ~VersionLess(aks.result, i.orchestratorVersion)

----------------------------------------------------------------------------
(* Two get-or-create calls at once *)

RECURSIVE SumCreates(_)
SumCreates(ts) ==
    IF ts = {} THEN 0
    ELSE LET t == CHOOSE x \in ts : TRUE
         IN  threads[t].creates + SumCreates(ts \ {t})

\* the lookups so far answered with the resource or with not-found
LookupsTruthful ==
    \A t \in Threads : threads[t].lookup \in {"none", "found", "ResourceNotFound"}

\* C27 as claimed: however two calls for the same absent network interleave,
\* their lookups answered truthfully, at most one create_or_update is
\* submitted.
C27_AtMostOneCreateConcurrent ==
    LookupsTruthful => SumCreates(Threads) <= 1

\* the calls whose lookup did not find the network
Missed == {t \in Threads : threads[t].lookup \notin {"none", "found"}}

\* C27, amended: under concurrency each call submits at most one
\* create_or_update, and submits it only after its own lookup missed and with
\* an address prefix given; so the creates submitted are at most as many as
\* the calls whose lookup missed, and two when both missed.
C27_AtMostOneCreatePerCall ==
    /\ \A t \in Threads :
          /\ threads[t].creates <= 1
          /\ threads[t].creates = 1 => (t \in Missed /\ ~Falsy(threads[t].arg))
          /\ threads[t].pc \in {"async_wait", "get"} => threads[t].creates = 1
    /\ SumCreates(Threads) <= Cardinality(Missed)

\* both calls missed the absent network and both submitted a create
C27_Witness ==
    /\ \A t \in Threads :
          /\ threads[t].lookup = "ResourceNotFound"
          /\ threads[t].creates = 1
          /\ threads[t].outcome = "returned"

----------------------------------------------------------------------------
(* run_shell_command and the pipes of its child *)

\* the child is stopped in a write to `stream`, whose pipe is full
ChildBlockedOn(stream) ==
    /\ child.status = "running"
    /\ child.i <= Len(child.script)
    /\ child.script[child.i][1] = stream
    /\ Len(IF stream = "out" THEN outpipe ELSE errpipe) >= PipeCap

\* the executor is stopped in process.stdout.readline() with no line to
\* read, or in process.wait(), the child not exited
ExecutorBlocked ==
    /\ child.status = "running"
    /\ \/ sh.pc = "wait"
       \/ sh.pc = "readline" /\ outpipe = <<>>

\* C28: run_shell_command and its child are never stopped on each other: the
\* executor is not waiting for a line of standard output, or for the exit,
\* while the child is stopped writing to a full pipe the executor does not
\* read.
C28_NoPipeDeadlock ==
    ~(ExecutorBlocked /\ (ChildBlockedOn("out") \/ ChildBlockedOn("err")))

----------------------------------------------------------------------------
(* The wait of the AzureManager construction *)

\* C30: a construction with create_rsg ends, returning or raising, once the
\* provisioning of the group has reached a terminal state, failure included:
\* the loop does not go on polling after it has looked up a terminal state.
C30_TerminalStateEndsConstruction ==
    mgr.pc = "poll" => \A k \in 1..Len(mgr.seen) : mgr.seen[k] \notin Terminal

====
